---- MODULE Spec2Model ----
(***************************************************************************)
(* Distributed 2D particle simulation (MPI): spatial partitioner, halo     *)
(* exchange, periodic redistribution, simulation driver and the region     *)
(* quadtree.                                                               *)
(*                                                                         *)
(* Number representation.  A float coordinate is a fixed-point number: an  *)
(* integer count of 1/Scale units (Scale units = 1.0).  (int)v truncates   *)
(* toward zero, ceil rounds a quotient up, distances are compared by their *)
(* squares.  Inside the quadtree the same coordinates carry PrecisionBits  *)
(* further binary digits, so that box midpoints are exact until the        *)
(* precision is exhausted and are rounded after that, as a float is.       *)
(***************************************************************************)
EXTENDS Integers, Sequences, FiniteSets, TLC

(* ------------------------------ bounds -------------------------------- *)
\* units per 1.0 of a coordinate
Scale == 2
\* input coordinates of the simulation are drawn from 0..MaxCoord (units)
MaxCoord == 2
\* the cutoff radius is drawn from MinRadius..MaxRadius (units)
MaxRadius == 3
\* the iteration count (-n) is at most MaxIter
MaxIter == 5
\* owner function inputs: coordinates 0..MaxOwnerCoord, grids up to MaxDim
MaxOwnerCoord == 6
MaxDim == 2
\* quadtree inputs: coordinates 0..MaxTreeCoord, extra fractional bits
MaxTreeCoord == 2
PrecisionBits == 2
\* QuadTreeLeafSize of the source is 256; the model scales it down so that
\* small inputs split
QuadTreeLeafSize == 2

(* ------------------------- program constants -------------------------- *)
\* the period of the earlier version of the simulator
REBUILD_GRANULARITY_v2 == 8
REBUILD_GRANULARITY == 4
COORDINATOR == 0
INT_TYPES_PER_PARTICLE == 6
SizeofParticle == INT_TYPES_PER_PARTICLE * 4
\* Vec2(1e30f, 1e30f): the "no particle yet" bound, far outside every input
FLT_BIG == 1000
INT_MIN == -2147483647 - 1

WorkerCounts == {1, 2, 4}
\* the ids of the particles of the simulated input file, in file order:
\* distinct and not sorted
InputIds == <<7, 4>>
NumParticles == Len(InputIds)
\* the outcomes of (int) of a NaN: 0 (a saturating convert) or INT_MIN (x86)
NanOutcomes == {0, INT_MIN}

(* ------------------------------ numbers ------------------------------- *)
Abs(v) == IF v < 0 THEN -v ELSE v
Min2(a, b) == IF a <= b THEN a ELSE b
Max2(a, b) == IF a >= b THEN a ELSE b
Sgn(v) == IF v > 0 THEN 1 ELSE IF v < 0 THEN -1 ELSE 0

\* (int) of the float with value v/Scale: truncation toward zero
IntCast(v) == IF v >= 0 THEN v \div Scale ELSE -((-v) \div Scale)

\* ceil of the float num/den (den > 0), as an integer
Ceil(num, den) == IF num >= 0 THEN (num + den - 1) \div den ELSE -((-num) \div den)

\* integer square root of dim = sqrt(nproc) stored into an int
ISqrt(n) == CHOOSE d \in 0..n : d * d <= n /\ (d + 1) * (d + 1) > n

\* y * d + x in 32-bit int arithmetic; x or y may be INT_MIN (a converted NaN),
\* every other operand is a small non-negative number
MulAdd32(y, d, x) ==
    LET ym == IF y = INT_MIN THEN (IF d % 2 = 0 THEN 0 ELSE INT_MIN) ELSE y * d
    IN  IF ym = INT_MIN /\ x = INT_MIN THEN 0 ELSE ym + x

SeqSum(s) ==
    LET RECURSIVE sum(_)
        sum(k) == IF k = 0 THEN 0 ELSE s[k] + sum(k - 1)
    IN  sum(Len(s))

(* ------------------------------ geometry ------------------------------ *)
Vec2(x, y) == [x |-> x, y |-> y]
Particle(id, pos, vel) == [id |-> id, mass |-> 1, position |-> pos, velocity |-> vel]
bound_t(mn, mx) == [min |-> mn, max |-> mx]

\* a float quotient num/den, kept exact
Ratio(num, den) == [num |-> num, den |-> den]

\* (int) coords.x / ceil(x_blocksize): the int converts to double, the quotient
\* is truncated into an int; 0 / 0.0 is a NaN, whose conversion is undefined
BlockIndex(c, blocksize, nan) ==
    LET cb == Ceil(blocksize.num, blocksize.den)
    IN  IF cb = 0 THEN nan
        ELSE IF IntCast(c) >= 0 THEN IntCast(c) \div cb ELSE -((-IntCast(c)) \div cb)

\* get_pid_of_coord: the assert on the offset coordinates, then y * dim + x
get_pid_of_coord(coords, x_blocksize, y_blocksize, spacedim, d, nan) ==
    LET x == BlockIndex(coords.x, x_blocksize, nan)
        y == BlockIndex(coords.y, y_blocksize, nan)
    IN  [asserted |-> coords.x <= spacedim.x /\ coords.y <= spacedim.y,
         x |-> x, y |-> y,
         retval |-> MulAdd32(y, d, x)]

\* the owner of position p under the grid over [global_min, global_max], as
\* recompute_local_particles computes it
OwnerOf(p, global_max, global_min, d, nan) ==
    LET spacedim == Vec2(global_max.x - global_min.x, global_max.y - global_min.y)
        x_blocksize == Ratio(spacedim.x, d * Scale)
        y_blocksize == Ratio(spacedim.y, d * Scale)
        coord == Vec2(p.x - global_min.x, p.y - global_min.y)
    IN  get_pid_of_coord(coord, x_blocksize, y_blocksize, spacedim, d, nan)

update_bounds(p, lo, hi) ==
    [bmin |-> Vec2(Min2(lo.x, p.position.x), Min2(lo.y, p.position.y)),
     bmax |-> Vec2(Max2(hi.x, p.position.x), Max2(hi.y, p.position.y))]

\* update_bounds folded over a particle list, from (lo, hi)
BoundsOver(ps, lo, hi) ==
    LET RECURSIVE fold(_)
        fold(k) == IF k = 0 THEN [bmin |-> lo, bmax |-> hi]
                   ELSE LET b == fold(k - 1) IN update_bounds(ps[k], b.bmin, b.bmax)
    IN  fold(Len(ps))

EmptyMin == Vec2(FLT_BIG, FLT_BIG)
EmptyMax == Vec2(-FLT_BIG, -FLT_BIG)

\* the plain box-intersection test, without the radius
bounds_overlap_boxes_only(b1, b2, r) ==
    /\ b1.max.x >= b2.min.x /\ b1.min.x <= b2.max.x
    /\ b1.max.y >= b2.min.y /\ b1.min.y <= b2.max.y

\* bounds_overlap as written, with b1.max.y >= b1.min.y in the y test; abs is
\* taken as the floating-point overload
bounds_overlap(b1, b2, r) ==
    LET dx0 == Min2(Abs(b1.min.x - b2.max.x), Abs(b2.min.x - b1.max.x))
        dx  == IF b1.max.x >= b2.min.x /\ b1.min.x <= b2.max.x THEN 0 ELSE dx0
        dy0 == Min2(Abs(b2.min.y - b1.max.y), Abs(b1.min.y - b2.max.y))
        dy  == IF b1.max.y >= b1.min.y /\ b1.min.y <= b2.max.y THEN 0 ELSE dy0
    IN  dx * dx + dy * dy <= r * r

\* squared Euclidean distance of two positions
Dist2(a, b) == (a.x - b.x) * (a.x - b.x) + (a.y - b.y) * (a.y - b.y)

(* ------------------------------ quadtree ------------------------------ *)
TreeScale == 2 ^ PrecisionBits
MaxDepth == PrecisionBits + 3
\* a coordinate in quadtree precision
Fine(v) == v * TreeScale
FineVec(p) == Vec2(Fine(p.x), Fine(p.y))
\* v / 2 and v * 0.5f: exact while v is even, rounded once precision is used up
Half(v) == v \div 2

\* a leaf that stores the particles it is given newest first
Leaf_newest_first(ps) == [isLeaf |-> TRUE, particles |-> [k \in 1..Len(ps) |-> ps[Len(ps) + 1 - k]],
                          children |-> <<>>, overflow |-> FALSE]

Leaf(ps) == [isLeaf |-> TRUE, particles |-> ps, children |-> <<>>, overflow |-> FALSE]
Internal(cs) == [isLeaf |-> FALSE, particles |-> <<>>, children |-> cs,
                 overflow |-> \E k \in 1..4 : cs[k].overflow]
\* the call that would exceed the stack: the recursion has no depth cap
StackOverflow == [isLeaf |-> FALSE, particles |-> <<>>, children |-> <<>>, overflow |-> TRUE]

\* a top-left test that leaves out the particles on the vertical split line
InTopLeft_strict(p, xs, ys)     == Fine(p.position.x) < xs /\ Fine(p.position.y) <= ys

InTopLeft(p, xs, ys)     == Fine(p.position.x) <= xs /\ Fine(p.position.y) <= ys
InTopRight(p, xs, ys)    == Fine(p.position.x) >  xs /\ Fine(p.position.y) <= ys
InBottomLeft(p, xs, ys)  == Fine(p.position.x) <= xs /\ Fine(p.position.y) >  ys
InBottomRight(p, xs, ys) == Fine(p.position.x) >  xs /\ Fine(p.position.y) >  ys

\* a build that still makes a leaf of one particle more than QuadTreeLeafSize
RECURSIVE buildQuadTreeImpl_late_split(_, _, _, _)
buildQuadTreeImpl_late_split(ps, lo, hi, depth) ==
    LET x_split == Half(lo.x + hi.x)
        y_split == Half(lo.y + hi.y)
        top_left     == SelectSeq(ps, LAMBDA p : InTopLeft(p, x_split, y_split))
        top_right    == SelectSeq(ps, LAMBDA p : InTopRight(p, x_split, y_split))
        bottom_left  == SelectSeq(ps, LAMBDA p : InBottomLeft(p, x_split, y_split))
        bottom_right == SelectSeq(ps, LAMBDA p : InBottomRight(p, x_split, y_split))
    IN  IF depth > MaxDepth THEN StackOverflow
        ELSE IF Len(ps) <= QuadTreeLeafSize + 1 THEN Leaf(ps)
        ELSE Internal(<<
            buildQuadTreeImpl_late_split(top_left, Vec2(lo.x, lo.y), Vec2(x_split, y_split), depth + 1),
            buildQuadTreeImpl_late_split(top_right, Vec2(x_split, lo.y), Vec2(hi.x, y_split), depth + 1),
            buildQuadTreeImpl_late_split(bottom_left, Vec2(lo.x, y_split), Vec2(x_split, hi.y), depth + 1),
            buildQuadTreeImpl_late_split(bottom_right, Vec2(x_split, y_split), Vec2(hi.x, hi.y), depth + 1) >>)

RECURSIVE buildQuadTreeImpl(_, _, _, _)
buildQuadTreeImpl(ps, lo, hi, depth) ==
    LET x_split == Half(lo.x + hi.x)
        y_split == Half(lo.y + hi.y)
        top_left     == SelectSeq(ps, LAMBDA p : InTopLeft(p, x_split, y_split))
        top_right    == SelectSeq(ps, LAMBDA p : InTopRight(p, x_split, y_split))
        bottom_left  == SelectSeq(ps, LAMBDA p : InBottomLeft(p, x_split, y_split))
        bottom_right == SelectSeq(ps, LAMBDA p : InBottomRight(p, x_split, y_split))
    IN  IF depth > MaxDepth THEN StackOverflow
        ELSE IF Len(ps) <= QuadTreeLeafSize THEN Leaf(ps)
        ELSE Internal(<<
            buildQuadTreeImpl(top_left, Vec2(lo.x, lo.y), Vec2(x_split, y_split), depth + 1),
            buildQuadTreeImpl(top_right, Vec2(x_split, lo.y), Vec2(hi.x, y_split), depth + 1),
            buildQuadTreeImpl(bottom_left, Vec2(lo.x, y_split), Vec2(x_split, hi.y), depth + 1),
            buildQuadTreeImpl(bottom_right, Vec2(x_split, y_split), Vec2(hi.x, hi.y), depth + 1) >>)

\* buildQuadTree: the bounds of all particles, then the nodes
buildQuadTree(ps) ==
    LET b  == BoundsOver(ps, EmptyMin, EmptyMax)
        lo == FineVec(b.bmin)
        hi == FineVec(b.bmax)
    IN  [root |-> buildQuadTreeImpl(ps, lo, hi, 0), bmin |-> lo, bmax |-> hi]

\* boxPointDistance squared
boxPointDistance2(lo, hi, p) ==
    LET dx == Max2(Max2(lo.x - p.x, p.x - hi.x), 0)
        dy == Max2(Max2(lo.y - p.y, p.y - hi.y), 0)
    IN  dx * dx + dy * dy

RECURSIVE getParticlesImpl(_, _, _, _, _, _)
getParticlesImpl(out, node, lo, hi, position, r) ==
    IF node.isLeaf
    THEN out \o SelectSeq(node.particles,
                          LAMBDA p : Dist2(position, FineVec(p.position)) < r * r)
    ELSE LET pivot == Vec2(Half(lo.x + hi.x), Half(lo.y + hi.y))
             size  == Vec2(Half(hi.x - lo.x), Half(hi.y - lo.y))
             childBMin(c) == Vec2(IF c % 2 = 1 THEN pivot.x ELSE lo.x,
                                  IF (c \div 2) % 2 = 1 THEN pivot.y ELSE lo.y)
             childBMax(c) == Vec2(childBMin(c).x + size.x, childBMin(c).y + size.y)
             RECURSIVE visit(_, _)
             visit(acc, c) ==
                 IF c = 4 THEN acc
                 ELSE visit(IF boxPointDistance2(childBMin(c), childBMax(c), position) <= r * r
                            THEN getParticlesImpl(acc, node.children[c + 1],
                                                  childBMin(c), childBMax(c), position, r)
                            ELSE acc,
                            c + 1)
         IN  visit(out, 0)

\* a query that appends to whatever the buffer holds
getParticles_keepBuffer(buffer, tree, position, r) ==
    getParticlesImpl(buffer, tree.root, tree.bmin, tree.bmax, FineVec(position), Fine(r))

\* getParticles: clear the caller's buffer, then descend from the root
getParticles(buffer, tree, position, r) ==
    getParticlesImpl(SubSeq(buffer, 1, 0), tree.root, tree.bmin, tree.bmax,
                     FineVec(position), Fine(r))

(* --------------------------- force kernels ---------------------------- *)
\* computeForce: no force on a coincident pair or beyond the cutoff, otherwise
\* an attraction along the direction to the attractor
computeForce(target, attractor, cullRadius) ==
    LET d2 == Dist2(target.position, attractor.position)
    IN  IF d2 = 0 \/ d2 > cullRadius * cullRadius THEN Vec2(0, 0)
        ELSE Vec2(Sgn(attractor.position.x - target.position.x),
                  Sgn(attractor.position.y - target.position.y))

\* updateParticle: the velocity takes the force, the position the new velocity
updateParticle(pi, force) ==
    LET v == Vec2(pi.velocity.x + force.x, pi.velocity.y + force.y)
    IN  [pi EXCEPT !.velocity = v,
                   !.position = Vec2(pi.position.x + v.x, pi.position.y + v.y)]

\* the force on p summed over the query result
ForceOn(p, found, cullRadius) ==
    LET RECURSIVE sum(_)
        sum(k) == IF k = 0 THEN Vec2(0, 0)
                  ELSE LET f == computeForce(p, found[k], cullRadius)
                           a == sum(k - 1)
                       IN  Vec2(a.x + f.x, a.y + f.y)
    IN  sum(Len(found))

\* a step that advances every particle of the buffer it was given, the received
\* ones included
simulateStep_over_buffer(tree, locals, nbrs, cullRadius, lo, hi) ==
    LET RECURSIVE step(_)
        step(j) ==
            IF j = 0 THEN [newParticles |-> <<>>, neighbors |-> nbrs, bmin |-> lo, bmax |-> hi]
            ELSE LET prev  == step(j - 1)
                     p     == nbrs[j]
                     found == getParticles(prev.neighbors, tree, p.position, cullRadius)
                     new_p == updateParticle(p, ForceOn(p, found, cullRadius))
                     b     == update_bounds(new_p, prev.bmin, prev.bmax)
                 IN  [newParticles |-> Append(prev.newParticles, new_p),
                      neighbors |-> found, bmin |-> b.bmin, bmax |-> b.bmax]
    IN  step(Len(nbrs))

\* a step that leaves (bmin, bmax) as they were
simulateStep_bounds_untouched(tree, locals, nbrs, cullRadius, lo, hi) ==
    LET RECURSIVE step(_)
        step(j) ==
            IF j = 0 THEN [newParticles |-> <<>>, neighbors |-> nbrs, bmin |-> lo, bmax |-> hi]
            ELSE LET prev  == step(j - 1)
                     p     == locals[j]
                     found == getParticles(prev.neighbors, tree, p.position, cullRadius)
                     new_p == updateParticle(p, ForceOn(p, found, cullRadius))
                 IN  [newParticles |-> Append(prev.newParticles, new_p),
                      neighbors |-> found, bmin |-> lo, bmax |-> hi]
    IN  step(Len(locals))

\* a step that puts each advanced particle in front of the ones before it
simulateStep_newest_first(tree, locals, nbrs, cullRadius, lo, hi) ==
    LET RECURSIVE step(_)
        step(j) ==
            IF j = 0 THEN [newParticles |-> <<>>, neighbors |-> nbrs, bmin |-> lo, bmax |-> hi]
            ELSE LET prev  == step(j - 1)
                     p     == locals[j]
                     found == getParticles(prev.neighbors, tree, p.position, cullRadius)
                     new_p == updateParticle(p, ForceOn(p, found, cullRadius))
                     b     == update_bounds(new_p, prev.bmin, prev.bmax)
                 IN  [newParticles |-> <<new_p>> \o prev.newParticles,
                      neighbors |-> found, bmin |-> b.bmin, bmax |-> b.bmax]
    IN  step(Len(locals))

\* a step that sizes newParticles first and then appends to it
simulateStep_resize_then_push(tree, locals, nbrs, cullRadius, lo, hi) ==
    LET RECURSIVE step(_)
        step(j) ==
            IF j = 0
            THEN [newParticles |-> [k \in 1..Len(locals) |-> Particle(0, Vec2(0, 0), Vec2(0, 0))],
                  neighbors |-> nbrs, bmin |-> lo, bmax |-> hi]
            ELSE LET prev  == step(j - 1)
                     p     == locals[j]
                     found == getParticles(prev.neighbors, tree, p.position, cullRadius)
                     new_p == updateParticle(p, ForceOn(p, found, cullRadius))
                     b     == update_bounds(new_p, prev.bmin, prev.bmax)
                 IN  [newParticles |-> Append(prev.newParticles, new_p),
                      neighbors |-> found, bmin |-> b.bmin, bmax |-> b.bmax]
    IN  step(Len(locals))

\* simulateStep: every local particle queries the tree (through the caller's
\* neighbors vector), is advanced, and widens (bmin, bmax)
simulateStep(tree, locals, nbrs, cullRadius, lo, hi) ==
    LET RECURSIVE step(_)
        step(j) ==
            IF j = 0 THEN [newParticles |-> <<>>, neighbors |-> nbrs, bmin |-> lo, bmax |-> hi]
            ELSE LET prev  == step(j - 1)
                     p     == locals[j]
                     found == getParticles(prev.neighbors, tree, p.position, cullRadius)
                     new_p == updateParticle(p, ForceOn(p, found, cullRadius))
                     b     == update_bounds(new_p, prev.bmin, prev.bmax)
                 IN  [newParticles |-> Append(prev.newParticles, new_p),
                      neighbors |-> found, bmin |-> b.bmin, bmax |-> b.bmax]
    IN  step(Len(locals))

(* ---------------------- partition and collectives --------------------- *)
\* recompute_local_particles for worker w: the owner of every particle of ps
Owners(ps, global_max, global_min, d, nan) ==
    [k \in 1..Len(ps) |-> OwnerOf(ps[k].position, global_max, global_min, d, nan)]

recompute_local_particles(ps, w, global_max, global_min, d, nan) ==
    LET own == Owners(ps, global_max, global_min, d, nan)
        RECURSIVE keep(_)
        keep(k) == IF k = 0 THEN <<>>
                   ELSE IF own[k].retval = w THEN Append(keep(k - 1), ps[k])
                   ELSE keep(k - 1)
    IN  keep(Len(ps))

\* displacements that were never advanced
Displacements_all_zero(sizes, n) == [j \in 0..(n - 1) |-> 0]

\* prefix sums of the byte sizes
Displacements(sizes, n) ==
    [j \in 0..(n - 1) |-> SeqSum([k \in 1..j |-> sizes[k - 1]])]

\* MPI_Allgatherv into recvbuf: worker j's send buffer lands at displs[j];
\* counts are in bytes, the buffers hold whole particles
Allgatherv(recvbuf, sendbufs, sendcounts, displs, n) ==
    [k \in 1..Len(recvbuf) |->
        IF \E j \in 0..(n - 1) :
               /\ (k - 1) * SizeofParticle >= displs[j]
               /\ (k - 1) * SizeofParticle < displs[j] + sendcounts[j]
        THEN LET j == CHOOSE jj \in 0..(n - 1) :
                          /\ (k - 1) * SizeofParticle >= displs[jj]
                          /\ (k - 1) * SizeofParticle < displs[jj] + sendcounts[jj]
             IN  sendbufs[j][k - (displs[j] \div SizeofParticle)]
        ELSE recvbuf[k]]

\* the ord map built at load time: insert keeps the first index of an id
OrdOf(ps, id) ==
    IF \E k \in 1..Len(ps) : ps[k].id = id
    THEN (CHOOSE k \in 1..Len(ps) :
             ps[k].id = id /\ \A m \in 1..(k - 1) : ps[m].id # id) - 1
    ELSE 0

DefaultParticle == Particle(0, Vec2(0, 0), Vec2(0, 0))

\* saving the gathered buffer as it is
Reorder_as_gathered(ps, loaded) == ps

\* the final reorder on the coordinator: target[ord[p.id]] = p, in buffer order
Reorder(ps, loaded) ==
    LET RECURSIVE place(_)
        place(k) == IF k = 0 THEN [m \in 1..Len(ps) |-> DefaultParticle]
                    ELSE [place(k - 1) EXCEPT ![OrdOf(loaded, ps[k].id) + 1] = ps[k]]
    IN  place(Len(ps))

(* ------------------------------- state -------------------------------- *)
VARIABLES
    nproc, dim, radius,     \* MPI_Comm_size, sqrt(nproc), cullRadius
    input,                  \* the particle file, as loadFromFile returns it
    i,                      \* the loop counter of main
    pc,                     \* per worker: where it stands in main
    failure,                \* why the job died, "none" while it runs
    particles, local_particles, new_particles, neighbors,
    bmin, bmax, num_local_particles, particle_list_sizes, particle_list_displ,
    all_bounds, neighbor_procs, recv_reqs, dest,
    chan,                   \* chan[s][d]: sends posted by s to d, not yet received
    output,                 \* what saveToFile wrote
    rebuilds,               \* history: the iteration indices that redistributed
    ow_call, ow_ret,        \* a call of get_pid_of_coord and its result
    qt_input, qt_tree, qt_query, qt_result, qt_pc,  \* a quadtree, built and queried
    fl_nproc, fl_n,         \* control flow alone: MPI_Comm_size, numIterations
    fl_i, fl_pc, fl_log,    \* per worker: its i, its statement, its collectives
    v1_nproc, v1_num_particles, v1_bsize, v1_r,  \* the first simulator: its block
    v1_id, v1_displ, v1_recv_count,              \* decomposition of the index range,
    v1_start, v1_end, v1_hits, v1_pc             \* and who simulated which index

configvars == <<nproc, dim, radius, input>>
workervars == <<particles, local_particles, new_particles, neighbors, bmin, bmax,
                num_local_particles, particle_list_sizes, particle_list_displ,
                all_bounds, neighbor_procs, recv_reqs, dest>>
simvars == <<configvars, i, pc, failure, workervars, chan, output, rebuilds>>
ownervars == <<ow_call, ow_ret>>
treevars == <<qt_input, qt_tree, qt_query, qt_result, qt_pc>>
flowvars == <<fl_nproc, fl_n, fl_i, fl_pc, fl_log>>
rangevars == <<v1_nproc, v1_num_particles, v1_bsize, v1_r, v1_id, v1_displ, v1_recv_count,
               v1_start, v1_end, v1_hits, v1_pc>>
vars == <<simvars, ownervars, treevars, flowvars, rangevars>>

Procs == 0..(nproc - 1)
Coords == 0..MaxCoord
Radii == {MaxRadius - 1, MaxRadius}
\* the first particle of the file may be moving, the others start at rest
VelocityChoices(k) == IF k = 1 THEN {Vec2(0, 0), Vec2(1, 1)} ELSE {Vec2(0, 0)}
\* options.numIterations is an input that only the loop test reads: the run
\* with -n n is the behaviour that leaves the loop when i = n
IterationCounts == 1..MaxIter
Garbage == Particle(-1, Vec2(0, 0), Vec2(0, 0))

InputFiles ==
    { [k \in 1..NumParticles |-> Particle(InputIds[k], Vec2(xs[k], ys[k]), vs[k])] :
        xs \in [1..NumParticles -> Coords], ys \in [1..NumParticles -> Coords],
        vs \in { f \in [1..NumParticles -> {Vec2(0, 0), Vec2(1, 1)}] :
                      \A k \in 1..NumParticles : f[k] \in VelocityChoices(k) } }

\* files of one particle more, all at rest and the first at the origin: enough
\* for three occupied cells
HaloInputIds == InputIds \o <<9>>
HaloInputFiles ==
    { [k \in 1..Len(HaloInputIds) |-> Particle(HaloInputIds[k], Vec2(xs[k], ys[k]), Vec2(0, 0))] :
        xs \in { f \in [1..Len(HaloInputIds) -> Coords] : f[1] = 0 },
        ys \in { f \in [1..Len(HaloInputIds) -> Coords] : f[1] = 0 } }

\* the variables of the simulation when no simulation is running
SimOff ==
    /\ nproc = 0 /\ dim = 0 /\ radius = 0
    /\ input = <<>> /\ i = 0 /\ pc = <<>> /\ failure = "none"
    /\ particles = <<>> /\ local_particles = <<>> /\ new_particles = <<>>
    /\ neighbors = <<>> /\ bmin = <<>> /\ bmax = <<>> /\ num_local_particles = <<>>
    /\ particle_list_sizes = <<>> /\ particle_list_displ = <<>> /\ all_bounds = <<>>
    /\ neighbor_procs = <<>> /\ recv_reqs = <<>> /\ dest = <<>> /\ chan = <<>>
    /\ output = <<>> /\ rebuilds = {}
OwnerOff == ow_call = <<>> /\ ow_ret = <<>>
TreeOff == qt_input = <<>> /\ qt_tree = <<>> /\ qt_query = <<>> /\ qt_result = <<>> /\ qt_pc = "off"
FlowOff == fl_nproc = 0 /\ fl_n = 0 /\ fl_i = <<>> /\ fl_pc = <<>> /\ fl_log = <<>>
RangesOff ==
    /\ v1_nproc = 0 /\ v1_num_particles = 0 /\ v1_bsize = 0 /\ v1_r = 0 /\ v1_id = 0
    /\ v1_displ = <<>> /\ v1_recv_count = <<>> /\ v1_start = <<>> /\ v1_end = <<>>
    /\ v1_hits = <<>> /\ v1_pc = "off"

\* main up to the loop: MPI_Init, loadFromFile on every worker, dim = sqrt(nproc),
\* for a worker count of counts and a particle file of files
InitSimOver(counts, files) ==
    /\ nproc \in counts
    /\ dim = ISqrt(nproc)
    /\ radius \in Radii
    /\ input \in files
    /\ i = 0
    /\ pc = [w \in Procs |-> "loop"]
    /\ failure = "none"
    /\ particles = [w \in Procs |-> input]
    /\ local_particles = [w \in Procs |-> <<>>]
    /\ new_particles = [w \in Procs |-> <<>>]
    /\ neighbors = [w \in Procs |-> <<>>]
    /\ bmin = [w \in Procs |-> EmptyMin]
    /\ bmax = [w \in Procs |-> EmptyMax]
    /\ num_local_particles = [w \in Procs |-> 0]
    /\ particle_list_sizes = [w \in Procs |-> [j \in Procs |-> 0]]
    /\ particle_list_displ = [w \in Procs |-> [j \in Procs |-> 0]]
    /\ all_bounds = [w \in Procs |-> [j \in Procs |-> bound_t(EmptyMin, EmptyMax)]]
    /\ neighbor_procs = [w \in Procs |-> <<>>]
    /\ recv_reqs = [w \in Procs |-> <<>>]
    /\ dest = [w \in Procs |-> <<>>]
    /\ chan = [s \in Procs |-> [d \in Procs |-> <<>>]]
    /\ output = <<>>
    /\ rebuilds = {}

InitSim == InitSimOver(WorkerCounts, InputFiles)

Init == InitSim /\ OwnerOff /\ TreeOff /\ FlowOff /\ RangesOff

Abort(why) ==
    /\ pc' = [w \in Procs |-> "aborted"]
    /\ failure' = why
    /\ UNCHANGED <<rebuilds, configvars, i, workervars, chan, output>>

(* --------------------------- redistribution --------------------------- *)
\* what every worker receives from the allgather of local_bounds
GatheredBounds == [j \in Procs |-> bound_t(bmin[j], bmax[j])]

\* element-wise min/max over all_bounds
GlobalOfBounds(bs) ==
    LET RECURSIVE fold(_)
        fold(n) == IF n = 0 THEN bound_t(EmptyMin, EmptyMax)
                   ELSE LET g == fold(n - 1)
                            b == bs[n - 1]
                        IN  bound_t(Vec2(Min2(g.min.x, b.min.x), Min2(g.min.y, b.min.y)),
                                    Vec2(Max2(g.max.x, b.max.x), Max2(g.max.y, b.max.y)))
    IN  fold(nproc)

SendCounts == [j \in Procs |-> num_local_particles[j] * SizeofParticle]

\* particles[] of worker w when the redistribution scans it
RebuiltParticles(w) ==
    IF i # 0
    THEN Allgatherv(particles[w], local_particles, SendCounts, particle_list_displ[w], nproc)
    ELSE particles[w]

\* global bounds folded over the buffer as it stood before the gather
GlobalBounds_of_stale_buffer(w) ==
    LET b == BoundsOver(particles[w], EmptyMin, EmptyMax) IN bound_t(b.bmin, b.bmax)

\* global bounds taken from the worker's own box, without the gathered ones
GlobalBounds_own_box(w) ==
    IF i # 0 THEN bound_t(bmin[w], bmax[w])
    ELSE LET b == BoundsOver(particles[w], EmptyMin, EmptyMax) IN bound_t(b.bmin, b.bmax)

GlobalBounds(w) ==
    IF i # 0 THEN GlobalOfBounds(GatheredBounds)
    ELSE LET b == BoundsOver(particles[w], EmptyMin, EmptyMax) IN bound_t(b.bmin, b.bmax)

NewLocal(w, nan) ==
    recompute_local_particles(RebuiltParticles(w), w, GlobalBounds(w).max,
                              GlobalBounds(w).min, dim, nan)

\* the assert at the top of get_pid_of_coord, over the scan of worker w
CoordAssertHolds(w) ==
    LET own == Owners(RebuiltParticles(w), GlobalBounds(w).max, GlobalBounds(w).min,
                      dim, 0)
    IN  \A k \in DOMAIN own : own[k].asserted

\* particle_list_sizes after the allgather of the counts and the *= sizeof
NewSizes(nan) == [j \in Procs |-> Len(NewLocal(j, nan)) * SizeofParticle]
\* a sum taken from the length of the buffer: it matches whatever was kept
SizeSum_of_buffer(nan) == Len(particles[COORDINATOR]) * SizeofParticle

SizeSum(nan) == SeqSum([k \in 1..nproc |-> NewSizes(nan)[k - 1]])

\* bounds folded onto the box the worker had before
LocalBounds_keeps_old(w, ps) == BoundsOver(ps, bmin[w], bmax[w])

\* "compute bounds": bmin and bmax are reset and folded over the new local list
LocalBounds(w, ps) == BoundsOver(ps, EmptyMin, EmptyMax)

\* the loop test i < options.numIterations succeeds
LoopContinues == \E n \in IterationCounts : i < n

\* the block under i % REBUILD_GRANULARITY == 0, all workers together; nan is
\* what the conversion of a NaN block index gives in this run
Redistribute ==
    /\ \A w \in Procs : pc[w] = "loop"
    /\ LoopContinues
    /\ i % REBUILD_GRANULARITY = 0
    /\ \E nan \in NanOutcomes :
         IF \E w \in Procs : ~CoordAssertHolds(w)
         THEN Abort("coord_assert")
         ELSE IF \E w \in Procs : SizeSum(nan) # Len(particles[w]) * SizeofParticle
         THEN Abort("size_sum")
         ELSE /\ all_bounds' = [w \in Procs |-> GatheredBounds]
              /\ particles' = [w \in Procs |-> RebuiltParticles(w)]
              /\ local_particles' = [w \in Procs |-> NewLocal(w, nan)]
              /\ num_local_particles' = [w \in Procs |-> Len(NewLocal(w, nan))]
              /\ particle_list_sizes' = [w \in Procs |-> NewSizes(nan)]
              /\ particle_list_displ' = [w \in Procs |-> Displacements(NewSizes(nan), nproc)]
              /\ bmin' = [w \in Procs |-> LocalBounds(w, NewLocal(w, nan)).bmin]
              /\ bmax' = [w \in Procs |-> LocalBounds(w, NewLocal(w, nan)).bmax]
              /\ pc' = [w \in Procs |-> "stageA"]
              /\ rebuilds' = rebuilds \cup {i}
              /\ UNCHANGED <<configvars, i, failure, new_particles, neighbors,
                             neighbor_procs, recv_reqs, dest, chan, output>>
    /\ UNCHANGED <<ownervars, treevars, flowvars, rangevars>>

(* ---------------------------- halo exchange --------------------------- *)
\* Stage A: the allgather of local_bounds that every iteration performs
ExchangeBounds ==
    /\ \/ \A w \in Procs : pc[w] = "stageA"
       \/ /\ \A w \in Procs : pc[w] = "loop"
          /\ LoopContinues
          /\ i % REBUILD_GRANULARITY # 0
    /\ all_bounds' = [w \in Procs |-> GatheredBounds]
    /\ pc' = [w \in Procs |-> "post"]
    /\ UNCHANGED <<rebuilds, configvars, i, failure, particles, local_particles, new_particles,
                   neighbors, bmin, bmax, num_local_particles, particle_list_sizes,
                   particle_list_displ, neighbor_procs, recv_reqs, dest, chan, output>>
    /\ UNCHANGED <<ownervars, treevars, flowvars, rangevars>>

\* a selection that does not skip the worker itself
SelectNeighbors_with_self(w) ==
    LET RECURSIVE scan(_)
        scan(n) == IF n = 0 THEN <<>>
                   ELSE IF bounds_overlap(all_bounds[w][n - 1],
                                          bound_t(bmin[w], bmax[w]), radius)
                   THEN Append(scan(n - 1), n - 1)
                   ELSE scan(n - 1)
    IN  scan(nproc)

\* a selection appended to the neighbor_procs of the iteration before
SelectNeighbors_keeps_old(w) ==
    LET RECURSIVE scan(_)
        scan(n) == IF n = 0 THEN neighbor_procs[w]
                   ELSE IF (n - 1) # w
                           /\ bounds_overlap(all_bounds[w][n - 1],
                                             bound_t(bmin[w], bmax[w]), radius)
                   THEN Append(scan(n - 1), n - 1)
                   ELSE scan(n - 1)
    IN  scan(nproc)

\* the workers j # w whose advertised bounds pass bounds_overlap, in rank order
SelectNeighbors(w) ==
    LET RECURSIVE scan(_)
        scan(n) == IF n = 0 THEN <<>>
                   ELSE IF (n - 1) # w
                           /\ bounds_overlap(all_bounds[w][n - 1],
                                             bound_t(bmin[w], bmax[w]), radius)
                   THEN Append(scan(n - 1), n - 1)
                   ELSE scan(n - 1)
    IN  scan(nproc)

\* receive requests that each allow for the whole population
RecvRequests_whole_buffer(w, nbrs) ==
    [k \in 1..Len(nbrs) |->
        [src |-> nbrs[k],
         offset |-> SeqSum([m \in 1..(k - 1) |-> particle_list_sizes[w][nbrs[m]]]),
         bytes |-> Len(particles[w]) * SizeofParticle]]

\* receive requests that all start at the beginning of the buffer
RecvRequests_at_start(w, nbrs) ==
    [k \in 1..Len(nbrs) |->
        [src |-> nbrs[k], offset |-> 0, bytes |-> particle_list_sizes[w][nbrs[k]]]]

\* the receive requests of worker w: one per neighbor, at the prefix sums of
\* particle_list_sizes over the neighbors
RecvRequests(w, nbrs) ==
    [k \in 1..Len(nbrs) |->
        [src |-> nbrs[k],
         offset |-> SeqSum([m \in 1..(k - 1) |-> particle_list_sizes[w][nbrs[m]]]),
         bytes |-> particle_list_sizes[w][nbrs[k]]]]

NumNeighborParticles(w, nbrs) ==
    SeqSum([m \in 1..Len(nbrs) |-> particle_list_sizes[w][nbrs[m]]]) \div SizeofParticle

\* two sends posted per entry of nbrs: the second is matched by no receive of
\* the iteration
Occurrences_sent_twice(nbrs, d) == 2 * Cardinality({ k \in 1..Len(nbrs) : nbrs[k] = d })

\* how many entries of nbrs name worker d: one MPI_Isend is posted per entry
Occurrences(nbrs, d) == Cardinality({ k \in 1..Len(nbrs) : nbrs[k] = d })

\* Stages B and C up to the wait: select, MPI_Isend to and MPI_Irecv from each
PostHalo(w) ==
    /\ pc[w] = "post"
    /\ LET nbrs == SelectNeighbors(w)
           msg  == [data |-> local_particles[w],
                    bytes |-> num_local_particles[w] * SizeofParticle]
       IN  /\ neighbor_procs' = [neighbor_procs EXCEPT ![w] = nbrs]
           /\ chan' = [chan EXCEPT ![w] =
                         [d \in Procs |->
                            chan[w][d] \o [k \in 1..Occurrences(nbrs, d) |-> msg]]]
           /\ recv_reqs' = [recv_reqs EXCEPT ![w] = RecvRequests(w, nbrs)]
           /\ neighbors' = [neighbors EXCEPT ![w] =
                              [k \in 1..NumNeighborParticles(w, nbrs) |-> DefaultParticle]]
           /\ dest' = [dest EXCEPT ![w] = [k \in 1..Len(particles[w]) |-> Garbage]]
    /\ pc' = [pc EXCEPT ![w] = "wait"]
    /\ UNCHANGED <<rebuilds, configvars, i, failure, particles, local_particles, new_particles,
                   bmin, bmax, num_local_particles, particle_list_sizes,
                   particle_list_displ, all_bounds, output>>
    /\ UNCHANGED <<ownervars, treevars, flowvars, rangevars>>

\* dest after the receives of reqs completed, each from the head of its channel
Received(w, reqs) ==
    LET RECURSIVE fill(_)
        fill(k) ==
            IF k = 0 THEN dest[w]
            ELSE LET m    == Head(chan[reqs[k].src][w])
                     n    == Min2(m.bytes, reqs[k].bytes) \div SizeofParticle
                     base == reqs[k].offset \div SizeofParticle
                     prev == fill(k - 1)
                 IN  [s \in 1..Len(prev) |->
                        IF s > base /\ s <= base + n THEN m.data[s - base] ELSE prev[s]]
    IN  fill(Len(reqs))

\* every receive worker w posted has a matching send: the MPI_Wait loop returns
WaitReturns(w) ==
    \A k \in 1..Len(recv_reqs[w]) : Len(chan[recv_reqs[w][k].src][w]) > 0

\* neighbors after the memcpy from dest and the push_back of the local particles
AssembledNeighbors(w) ==
    SubSeq(Received(w, recv_reqs[w]), 1, Len(neighbors[w])) \o local_particles[w]

\* from the return of the MPI_Wait loop to the barrier: memcpy and append into
\* neighbors, then Stage D: buildQuadTree over neighbors, simulateStep, swap
WaitAndStep(w) ==
    /\ pc[w] = "wait"
    /\ WaitReturns(w)
    /\ LET tree == buildQuadTree(AssembledNeighbors(w))
           res  == simulateStep(tree, local_particles[w], AssembledNeighbors(w), radius,
                                bmin[w], bmax[w])
       IN  IF tree.root.overflow
           THEN Abort("stack_overflow")
           ELSE /\ dest' = [dest EXCEPT ![w] = Received(w, recv_reqs[w])]
                /\ chan' = [s \in Procs |->
                              IF \E k \in 1..Len(recv_reqs[w]) : recv_reqs[w][k].src = s
                              THEN [chan[s] EXCEPT ![w] = Tail(@)]
                              ELSE chan[s]]
                /\ recv_reqs' = [recv_reqs EXCEPT ![w] = <<>>]
                /\ local_particles' = [local_particles EXCEPT ![w] = res.newParticles]
                /\ new_particles' = [new_particles EXCEPT ![w] = local_particles[w]]
                /\ neighbors' = [neighbors EXCEPT ![w] = res.neighbors]
                /\ bmin' = [bmin EXCEPT ![w] = res.bmin]
                /\ bmax' = [bmax EXCEPT ![w] = res.bmax]
                /\ pc' = [pc EXCEPT ![w] = "barrier"]
                /\ UNCHANGED <<rebuilds, configvars, i, failure, particles, num_local_particles,
                               particle_list_sizes, particle_list_displ, all_bounds,
                               neighbor_procs, output>>
    /\ UNCHANGED <<ownervars, treevars, flowvars, rangevars>>

\* MPI_Barrier at the end of the loop body, then i++
Barrier ==
    /\ \A w \in Procs : pc[w] = "barrier"
    /\ i' = i + 1
    /\ pc' = [w \in Procs |-> "loop"]
    /\ UNCHANGED <<rebuilds, configvars, failure, workervars, chan, output>>
    /\ UNCHANGED <<ownervars, treevars, flowvars, rangevars>>

\* after the loop: the final MPI_Allgatherv, the reorder and saveToFile on the
\* coordinator
FinalGather ==
    /\ \A w \in Procs : pc[w] = "loop"
    /\ \E n \in IterationCounts : i = n
    /\ particles' = [w \in Procs |->
                       Allgatherv(particles[w], local_particles, SendCounts,
                                  particle_list_displ[w], nproc)]
    /\ output' = Reorder(particles'[COORDINATOR], input)
    /\ pc' = [w \in Procs |-> "done"]
    /\ UNCHANGED <<rebuilds, configvars, i, failure, local_particles, new_particles, neighbors,
                   bmin, bmax, num_local_particles, particle_list_sizes,
                   particle_list_displ, all_bounds, neighbor_procs, recv_reqs, dest, chan>>
    /\ UNCHANGED <<ownervars, treevars, flowvars, rangevars>>

Next ==
    \/ Redistribute
    \/ ExchangeBounds
    \/ \E w \in Procs : PostHalo(w)
    \/ \E w \in Procs : WaitAndStep(w)
    \/ Barrier
    \/ FinalGather

Spec == Init /\ [][Next]_vars

\* the same program on the largest worker count and the three-particle files
InitHalo ==
    /\ InitSimOver({ c \in WorkerCounts : \A d \in WorkerCounts : d <= c }, HaloInputFiles)
    /\ OwnerOff /\ TreeOff /\ FlowOff /\ RangesOff

SpecHalo == InitHalo /\ [][Next]_vars

(* ------------------- the owner function on its own -------------------- *)
OwnerCoords == 0..MaxOwnerCoord
\* a call: global bounds, a position inside them, the grid dimension and what
\* the conversion of a NaN gives
OwnerCall(x0, x1, px, y0, y1, py, d, nan) ==
    [global_min |-> Vec2(x0, y0), global_max |-> Vec2(x1, y1),
     p |-> Vec2(px, py), d |-> d, nan |-> nan]

InitOwner ==
    /\ \E x0 \in OwnerCoords, y0 \in OwnerCoords, d \in 1..MaxDim, nan \in NanOutcomes :
         \E x1 \in x0..MaxOwnerCoord, y1 \in y0..MaxOwnerCoord :
           \E px \in x0..x1, py \in y0..y1 :
             ow_call = OwnerCall(x0, x1, px, y0, y1, py, d, nan)
    /\ ow_ret = <<>>
    /\ SimOff /\ TreeOff /\ FlowOff /\ RangesOff

\* recompute_local_particles maps the position to its owner
CallOwner ==
    /\ ow_ret = <<>>
    /\ ow_ret' = OwnerOf(ow_call.p, ow_call.global_max, ow_call.global_min,
                         ow_call.d, ow_call.nan)
    /\ UNCHANGED <<ow_call, simvars, treevars, flowvars, rangevars>>

NextOwner == CallOwner
SpecOwner == InitOwner /\ [][NextOwner]_vars

(* ----------------------- the quadtree on its own ---------------------- *)
TreeCoords == 0..MaxTreeCoord
MaxTreeLen == QuadTreeLeafSize + 2
TreePositions == { Vec2(x, y) : x \in TreeCoords, y \in TreeCoords }
\* particle sequences: the k-th particle has id k
TreeInputs ==
    UNION { { [k \in 1..n |-> Particle(k, ps[k], Vec2(0, 0))] :
                ps \in [1..n -> TreePositions] } : n \in 0..MaxTreeLen }
\* what the caller's output buffer may hold before a query
PriorBuffers == { <<>>, <<Particle(99, Vec2(0, 0), Vec2(0, 0))>> }

InitTree ==
    /\ qt_input \in TreeInputs
    /\ qt_tree = <<>> /\ qt_query = <<>> /\ qt_result = <<>>
    /\ qt_pc = "start"
    /\ SimOff /\ OwnerOff /\ FlowOff /\ RangesOff

\* QuadTree::buildQuadTree; a recursion past the stack never returns
Build ==
    /\ qt_pc = "start"
    /\ LET t == buildQuadTree(qt_input)
       IN  /\ qt_tree' = t
           /\ qt_pc' = IF t.root.overflow THEN "overflow" ELSE "built"
    /\ UNCHANGED <<qt_input, qt_query, qt_result, simvars, ownervars, flowvars, rangevars>>

\* QuadTree::getParticles on the built tree
Query ==
    /\ qt_pc = "built"
    /\ \E q \in TreePositions, r \in 1..MaxRadius, buf \in PriorBuffers :
         /\ qt_query' = [position |-> q, radius |-> r, buffer |-> buf]
         /\ qt_result' = getParticles(buf, qt_tree, q, r)
    /\ qt_pc' = "queried"
    /\ UNCHANGED <<qt_input, qt_tree, simvars, ownervars, flowvars, rangevars>>

NextTree == Build \/ Query
SpecTree == InitTree /\ [][NextTree]_vars

(* ----------------------- the run with -n 0 ---------------------------- *)
\* what a read of one of the ints declared without initialiser at the top of
\* main can return when nothing has been stored in it
UnsetInts == {0, 1}

\* the run with numIterations = 0: the loop body never runs, so the final
\* MPI_Allgatherv reads num_local_particles, particle_list_sizes and
\* particle_list_displ as they were declared and sends from the empty
\* local_particles. Every worker runs the same frame, so one value per variable.
\* A send count above the receive count is fatal in MPI; a positive send count
\* reads past the empty vector, which faults or delivers foreign bytes
FinalGatherUnset ==
    /\ i = 0
    /\ \A w \in Procs : pc[w] = "loop"
    /\ \E num \in UnsetInts, size \in UnsetInts, displ \in UnsetInts :
         \/ /\ num > 0
            /\ Abort("gather_fault")
         \/ /\ num <= size
            /\ num_local_particles' = [w \in Procs |-> num]
            /\ particle_list_sizes' =
                   [w \in Procs |-> [j \in Procs |-> size * SizeofParticle]]
            /\ particle_list_displ' =
                   [w \in Procs |-> [j \in Procs |-> displ * SizeofParticle]]
            /\ particles' = [w \in Procs |->
                               Allgatherv(particles[w], [j \in Procs |-> <<Garbage>>],
                                          [j \in Procs |-> num * SizeofParticle],
                                          particle_list_displ'[w], nproc)]
            /\ output' = Reorder(particles'[COORDINATOR], input)
            /\ pc' = [w \in Procs |-> "done"]
            /\ UNCHANGED <<rebuilds, configvars, i, failure, local_particles, new_particles,
                           neighbors, bmin, bmax, all_bounds, neighbor_procs, recv_reqs,
                           dest, chan>>
    /\ UNCHANGED <<ownervars, treevars, flowvars, rangevars>>

SpecZero == Init /\ [][FinalGatherUnset]_vars

(* ------------- the first simulator: blocks of the index range ---------- *)
MaxRangeProcs == 4
MaxRangeParticles == 9
RangeProcs == 0..(v1_nproc - 1)

\* main of the first simulator up to the block computation: MPI_Comm_size and
\* the broadcast particle count
InitRanges ==
    /\ v1_nproc \in 1..MaxRangeProcs
    /\ v1_num_particles \in 0..MaxRangeParticles
    /\ v1_bsize = 0 /\ v1_r = 0 /\ v1_id = 0
    /\ v1_displ = <<>> /\ v1_recv_count = <<>> /\ v1_start = <<>> /\ v1_end = <<>>
    /\ v1_hits = <<>>
    /\ v1_pc = "setup"
    /\ SimOff /\ OwnerOff /\ TreeOff /\ FlowOff

\* int bsize = num_particles / nproc; int r = num_particles % bsize; the
\* remainder by zero ends the process
DivideBlocks ==
    /\ v1_pc = "setup"
    /\ v1_bsize' = v1_num_particles \div v1_nproc
    /\ IF v1_bsize' = 0
       THEN v1_r' = v1_r /\ v1_pc' = "fault"
       ELSE v1_r' = v1_num_particles % v1_bsize' /\ v1_pc' = "ranges"
    /\ UNCHANGED <<v1_nproc, v1_num_particles, v1_id, v1_displ, v1_recv_count,
                   v1_start, v1_end, v1_hits>>
    /\ UNCHANGED <<simvars, ownervars, treevars, flowvars>>

\* one pass of the loop over id: s and e of worker id, its displ and recv_count
\* in bytes, and the start and end that worker id keeps for itself
RangeOfId ==
    /\ v1_pc = "ranges"
    /\ LET id == v1_id
           s  == IF id < v1_r THEN id * (v1_bsize + 1)
                 ELSE v1_r * (v1_bsize + 1) + (id - v1_r) * v1_bsize
           e  == IF id < v1_r THEN s + v1_bsize + 1 ELSE s + v1_bsize
           put(f, v) == [j \in 0..id |-> IF j = id THEN v ELSE f[j]]
       IN  /\ v1_displ' = put(v1_displ, s * SizeofParticle)
           /\ v1_recv_count' = put(v1_recv_count, (e - s) * SizeofParticle)
           /\ v1_start' = put(v1_start, s)
           /\ v1_end' = put(v1_end, e)
           /\ v1_id' = id + 1
           /\ v1_pc' = IF id + 1 = v1_nproc THEN "loop" ELSE "ranges"
    /\ UNCHANGED <<v1_nproc, v1_num_particles, v1_bsize, v1_r, v1_hits>>
    /\ UNCHANGED <<simvars, ownervars, treevars, flowvars>>

\* one iteration: after the broadcast every worker runs simulateStep over its
\* indices start..end-1 and the coordinator gathers the results; v1_hits counts,
\* for each index, the workers that simulated it
SimulateRanges ==
    /\ v1_pc = "loop"
    /\ v1_hits' = [j \in 0..(v1_num_particles - 1) |->
                     Cardinality({ w \in RangeProcs : v1_start[w] <= j /\ j < v1_end[w] })]
    /\ v1_pc' = "done"
    /\ UNCHANGED <<v1_nproc, v1_num_particles, v1_bsize, v1_r, v1_id, v1_displ,
                   v1_recv_count, v1_start, v1_end>>
    /\ UNCHANGED <<simvars, ownervars, treevars, flowvars>>

NextRanges == DivideBlocks \/ RangeOfId \/ SimulateRanges
SpecRanges == InitRanges /\ [][NextRanges]_vars

(* ------------------------ properties of the owner --------------------- *)
\* both extents positive: no block size is zero, every conversion is defined
PositiveExtent ==
    /\ ow_call.global_max.x > ow_call.global_min.x
    /\ ow_call.global_max.y > ow_call.global_min.y

\* C5: for every position inside the global bounding box the owner index is an
\* integer in 0 .. W-1, W = dim * dim (stated here for boxes of positive extent
\* only, where the computation has one outcome)
C5_OwnerInRange ==
    (ow_ret # <<>> /\ PositiveExtent)
    => ow_ret.retval \in 0..(ow_call.d * ow_call.d - 1)

\* the row-major cell of p under equal blocks: floor((p - min) / (S / dim)) on
\* each axis, the upper edge clamped into the last cell
CellOf(c, extent, d) == Min2((c * d) \div extent, d - 1)
RowMajorCell(call) ==
    CellOf(call.p.y - call.global_min.y, call.global_max.y - call.global_min.y, call.d)
        * call.d
    + CellOf(call.p.x - call.global_min.x, call.global_max.x - call.global_min.x, call.d)

\* C6: with a positive extent on both axes the owner of p is
\* row(p) * dim + col(p), col and row the floor of the offset over the block
\* size, clamped to dim - 1
C6_OwnerIsRowMajorCell ==
    (ow_ret # <<>> /\ PositiveExtent) => ow_ret.retval = RowMajorCell(ow_call)

(* ----------------------- properties of the quadtree ------------------- *)
\* the particles of ps strictly closer than r to q
WithinStrict(ps, q, r) == { ps[k] : k \in { m \in 1..Len(ps) : Dist2(ps[m].position, q) < r * r } }
SeqRange(sq) == { sq[k] : k \in 1..Len(sq) }

\* C8: a query (q, r) on a tree built from P returns exactly the particles of P
\* at distance < r from q, none missing, none extra, each once, whatever the
\* output buffer held before
C8_QueryExact ==
    qt_pc = "queried"
    => /\ SeqRange(qt_result) = WithinStrict(qt_input, qt_query.position, qt_query.radius)
       /\ Len(qt_result) = Cardinality(SeqRange(qt_result))

\* a query on a split tree, into a used buffer, that finds some particles of P
\* and leaves others out
C8_Witness ==
    /\ qt_pc = "queried"
    /\ ~qt_tree.root.isLeaf
    /\ qt_query.buffer # <<>>
    /\ Len(qt_result) > 0
    /\ Len(qt_result) < Len(qt_input)
    /\ \E k \in 1..Len(qt_input) :
         Dist2(qt_input[k].position, qt_query.position) = qt_query.radius * qt_query.radius

\* C9: building a tree over any finite particle set terminates
C9_BuildTerminates == qt_pc # "overflow"

(* ---------------------- properties of the simulation ------------------ *)
\* the first redistribution has completed and no assert has ended the job
Redistributed ==
    /\ failure = "none"
    /\ i > 0 \/ \E w \in Procs : pc[w] # "loop"

\* where particle id sits: the (worker, index) pairs of the local lists
HoldersOf(id) ==
    { wk \in UNION { { <<w, k>> : k \in 1..Len(local_particles[w]) } : w \in Procs } :
        local_particles[wk[1]][wk[2]].id = id }

\* C1: from the end of the first redistribution on, the local lists are a
\* partition of the input particles: every input particle is in exactly one
\* local list, once, and the lists hold nothing else
C1_Partition ==
    Redistributed
    => /\ \A k \in 1..Len(input) : Cardinality(HoldersOf(input[k].id)) = 1
       /\ SeqSum([k \in 1..nproc |-> Len(local_particles[k - 1])]) = Len(input)

\* after the second redistribution of a four-worker run, with the particles on
\* two different workers and away from where they were loaded
C1_Witness ==
    /\ Redistributed
    /\ nproc = 4
    /\ i = REBUILD_GRANULARITY
    /\ \A w \in Procs : pc[w] = "stageA"
    /\ \E w1 \in Procs, w2 \in Procs :
         w1 # w2 /\ local_particles[w1] # <<>> /\ local_particles[w2] # <<>>
    /\ \E w \in Procs : \E k \in 1..Len(local_particles[w]) :
         \A m \in 1..Len(input) : local_particles[w][k] # input[m]

\* the local list of worker j as it was when this iteration started
IterStartLocal(j) == IF pc[j] = "barrier" THEN new_particles[j] ELSE local_particles[j]

\* C2: when worker w's wait returns, its neighbor buffer holds every particle
\* of the global population that is within the cutoff radius of one of w's own
\* particles
C2_HaloComplete ==
    \A w \in Procs :
        (failure = "none" /\ pc[w] = "wait" /\ WaitReturns(w))
        => \A j \in Procs : \A ka \in 1..Len(local_particles[w]) :
             \A kb \in 1..Len(IterStartLocal(j)) :
               Dist2(local_particles[w][ka].position, IterStartLocal(j)[kb].position)
                   <= radius * radius
               => IterStartLocal(j)[kb] \in SeqRange(AssembledNeighbors(w))

\* worker w is past its wait with a particle of another worker within the
\* cutoff of one of its own, the two bounding boxes a positive distance apart
C2_Witness ==
    \E w \in Procs, j \in Procs :
        /\ w # j /\ failure = "none" /\ pc[w] = "wait" /\ WaitReturns(w)
        /\ bmax[j].x < bmin[w].x \/ bmax[w].x < bmin[j].x
        /\ \E ka \in 1..Len(local_particles[w]) : \E kb \in 1..Len(IterStartLocal(j)) :
             /\ Dist2(local_particles[w][ka].position, IterStartLocal(j)[kb].position)
                    <= radius * radius
             /\ IterStartLocal(j)[kb] \in SeqRange(AssembledNeighbors(w))

\* C3: no worker blocks forever on a receive that no peer sends: whenever w
\* waits on a receive from src and src has finished posting its sends of this
\* iteration, the message is in the channel
C3_EveryReceiveIsSent ==
    \A w \in Procs :
        (failure = "none" /\ pc[w] = "wait")
        => \A k \in 1..Len(recv_reqs[w]) :
             pc[recv_reqs[w][k].src] # "post"
             => Len(chan[recv_reqs[w][k].src][w]) > 0

\* C7: at every redistribution the per-worker byte sizes sum to the total
\* particle count times the record size: the assert on the sum never fails
C7_SizeSumHolds == failure # "size_sum"

\* the particle of the local lists that has this id
FinalStateOf(id) ==
    LET wk == CHOOSE h \in HoldersOf(id) : TRUE
    IN  local_particles[wk[1]][wk[2]]

\* C10: with distinct ids, position k of the saved sequence holds the final
\* state of the particle that was at position k of the input
C10_OutputInInputOrder ==
    (\A w \in Procs : pc[w] = "done")
    => /\ Len(output) = Len(input)
       /\ \A k \in 1..Len(input) :
            /\ output[k].id = input[k].id
            /\ output[k] = FinalStateOf(input[k].id)

\* a finished four-worker run whose gathered buffer is not in input order and
\* whose particles have moved
C10_Witness ==
    /\ \A w \in Procs : pc[w] = "done"
    /\ nproc = 4
    /\ particles[COORDINATOR][1].id # input[1].id
    /\ output[1] # input[1]
    /\ output[2] # input[2]

(* --------------------- the single-worker reference -------------------- *)
\* one pass of the loop body with nproc = 1 on state st = [ps, lo, hi, ok], at
\* iteration index it: the redistribution (when due) keeps all particles on
\* worker 0 or the job ends; the halo is empty, the tree holds ps
SingleWorkerStep(st, it) ==
    LET redo  == it % REBUILD_GRANULARITY = 0
        g     == IF it = 0 THEN BoundsOver(st.ps, EmptyMin, EmptyMax)
                 ELSE [bmin |-> st.lo, bmax |-> st.hi]
        own   == Owners(st.ps, g.bmax, g.bmin, 1, 0)
        kept  == \A k \in 1..Len(st.ps) : own[k].asserted /\ own[k].retval = 0
        tight == BoundsOver(st.ps, EmptyMin, EmptyMax)
        lo    == IF redo THEN tight.bmin ELSE st.lo
        hi    == IF redo THEN tight.bmax ELSE st.hi
        tree  == buildQuadTree(st.ps)
        res   == simulateStep(tree, st.ps, st.ps, radius, lo, hi)
    IN  IF ~st.ok \/ (redo /\ ~kept) \/ tree.root.overflow
        THEN [st EXCEPT !.ok = FALSE]
        ELSE [ps |-> res.newParticles, lo |-> res.bmin, hi |-> res.bmax, ok |-> TRUE]

\* the single-worker run of n iterations on the loaded input
RECURSIVE SingleWorkerRun(_)
SingleWorkerRun(n) ==
    IF n = 0 THEN [ps |-> input, lo |-> EmptyMin, hi |-> EmptyMax, ok |-> TRUE]
    ELSE SingleWorkerStep(SingleWorkerRun(n - 1), n - 1)

\* no worker can take a step and the run has not reached its end
Stuck ==
    /\ failure = "none"
    /\ \A w \in Procs : pc[w] \in {"wait", "barrier"}
    /\ \E w \in Procs : pc[w] = "wait"
    /\ \A w \in Procs : pc[w] = "wait" => ~WaitReturns(w)

\* C4: for the same input and iteration count a run on four workers ends with
\* the state of every particle that the run on one worker ends with: where the
\* single-worker run completes iteration i + 1 the four-worker run does not stop
\* inside it, and where both finish n iterations they save the same particles
C4_SameAsSingleWorker ==
    nproc = 4
    => /\ Stuck => ~SingleWorkerRun(i + 1).ok
       /\ ((\A w \in Procs : pc[w] = "done") /\ SingleWorkerRun(i).ok)
          => output = Reorder(SingleWorkerRun(i).ps, input)

\* C4, the finished runs alone: a four-worker run that reaches the final gather
\* saves what the single-worker run of the same length saves
C4_FinishedRunsAgree ==
    (nproc = 4 /\ (\A w \in Procs : pc[w] = "done") /\ SingleWorkerRun(i).ok)
    => output = Reorder(SingleWorkerRun(i).ps, input)

(* --------------------------- the gathered buffer ---------------------- *)
\* particles[] of worker w was just written by an allgather of local_particles:
\* by the one of a redistribution after the first, or by the final one
JustGathered ==
    /\ failure = "none"
    /\ \/ i > 0 /\ \A w \in Procs : pc[w] = "stageA"
       \/ \A w \in Procs : pc[w] = "done"

\* the indices of particles[w] that hold particle id
SlotsOf(w, id) == { m \in 1..Len(particles[w]) : particles[w][m].id = id }

\* C11: after every allgather of local_particles into particles[], on every
\* worker particles[] holds the current state of every particle exactly once
C11_GatherRestoresPopulation ==
    JustGathered
    => \A w \in Procs :
         /\ Len(particles[w]) = Len(input)
         /\ \A k \in 1..Len(input) :
              /\ Cardinality(SlotsOf(w, input[k].id)) = 1
              /\ \A m \in SlotsOf(w, input[k].id) :
                   particles[w][m] = FinalStateOf(input[k].id)

\* a gather at the second redistribution that collected from two workers, the
\* particles no longer where they were loaded
C11_Witness ==
    /\ JustGathered
    /\ i = REBUILD_GRANULARITY
    /\ \A w \in Procs : pc[w] = "stageA"
    /\ \E w1 \in Procs, w2 \in Procs :
         w1 # w2 /\ new_particles[w1] # <<>> /\ new_particles[w2] # <<>>
    /\ \A k \in 1..Len(input) : particles[COORDINATOR][k] # input[k]

(* ------------------------- local lists and the grid ------------------- *)
\* the global bounds the redistribution just ended was computed with: on the
\* first from particles[], afterwards from the gathered bounds
UsedGlobal(w) ==
    IF i # 0 THEN GlobalOfBounds(all_bounds[w])
    ELSE LET b == BoundsOver(particles[w], EmptyMin, EmptyMax) IN bound_t(b.bmin, b.bmax)

\* the grid cell of position p in the dim x dim grid over g, flattened row-major
GridOwner(p, g, d) ==
    CellOf(p.y - g.min.y, g.max.y - g.min.y, d) * d
    + CellOf(p.x - g.min.x, g.max.x - g.min.x, d)

\* C12: right after a redistribution every worker's local_particles is exactly
\* the particles of particles[] whose position lies in that worker's grid cell
\* (stated for a full dim x dim grid of workers and a box of positive extent)
C12_LocalIsGridCell ==
    (failure = "none" /\ nproc = dim * dim /\ \A w \in Procs : pc[w] = "stageA")
    => \A w \in Procs :
         LET g == UsedGlobal(w)
         IN  (g.max.x > g.min.x /\ g.max.y > g.min.y)
             => \A k \in 1..Len(particles[w]) :
                  (GridOwner(particles[w][k].position, g, dim) = w)
                  <=> (particles[w][k] \in SeqRange(local_particles[w]))

(* ------------------------- the neighbor buffer ------------------------ *)
\* no two positions of sq hold the same value
NoRepeat(sq) == \A a \in 1..Len(sq), b \in 1..Len(sq) : a # b => sq[a] # sq[b]

\* C13: the neighbors buffer a worker assembles from the received halos and its
\* local particles holds each particle, by id, at most once
C13_NoDuplicateNeighbors ==
    \A w \in Procs :
        (failure = "none" /\ pc[w] = "wait" /\ WaitReturns(w))
        => NoRepeat([k \in 1..Len(AssembledNeighbors(w)) |-> AssembledNeighbors(w)[k].id])

\* a worker past its wait whose buffer holds a received particle and one of its
\* own
C13_Witness ==
    \E w \in Procs :
        /\ failure = "none" /\ pc[w] = "wait" /\ WaitReturns(w)
        /\ Len(recv_reqs[w]) > 0
        /\ Len(neighbors[w]) > 0
        /\ Len(local_particles[w]) > 0
        /\ i > 0

\* C20: in an iteration a worker posts at most one send to and at most one
\* receive from any neighbor: neighbor_procs names no worker twice, no two
\* receive requests have the same source, no channel holds two messages
C20_OnePerNeighbor ==
    \A w \in Procs :
        (failure = "none" /\ pc[w] \in {"wait", "barrier"})
        => /\ NoRepeat(neighbor_procs[w])
           /\ NoRepeat([k \in 1..Len(recv_reqs[w]) |-> recv_reqs[w][k].src])
           /\ \A d \in Procs : Len(chan[w][d]) <= 1

\* a four-worker run, in an iteration after the first, with a worker that has
\* posted to a neighbor and whose message is still in flight
C20_Witness ==
    \E w \in Procs, d \in Procs :
        /\ failure = "none" /\ nproc = 4 /\ i > 0 /\ pc[w] = "wait"
        /\ Len(neighbor_procs[w]) > 0
        /\ Len(recv_reqs[w]) = Len(neighbor_procs[w])
        /\ Len(chan[w][d]) = 1

(* ------------------------ the neighbor selection ---------------------- *)
\* the gap between intervals [lo1, hi1] and [lo2, hi2]: zero when they meet
AxisGap(lo1, hi1, lo2, hi2) == Max2(0, Max2(lo1 - hi2, lo2 - hi1))

\* squared minimum point-to-point distance between rectangles b1 and b2
RectDist2(b1, b2) ==
    LET gx == AxisGap(b1.min.x, b1.max.x, b2.min.x, b2.max.x)
        gy == AxisGap(b1.min.y, b1.max.y, b2.min.y, b2.max.y)
    IN  gx * gx + gy * gy

\* the workers whose advertised rectangle is within the cutoff of w's own
ExactNeighbors(w) ==
    { j \in Procs \ {w} :
        RectDist2(all_bounds[w][j], bound_t(bmin[w], bmax[w])) <= radius * radius }

\* C14: the neighbors a worker selects are exactly the other workers whose
\* rectangle is at distance <= radius from its own; it never selects itself
C14_SelectionIsRectDistance ==
    \A w \in Procs :
        (failure = "none" /\ pc[w] = "wait")
        => SeqRange(neighbor_procs[w]) = ExactNeighbors(w)

\* the buffer worker w would assemble had it selected by the exact test: the
\* lists of the exact neighbors in rank order, then its own
ExactAssembled(w) ==
    LET RECURSIVE cat(_)
        cat(n) == IF n = 0 THEN <<>>
                  ELSE IF (n - 1) \in ExactNeighbors(w)
                  THEN cat(n - 1) \o IterStartLocal(n - 1)
                  ELSE cat(n - 1)
    IN  cat(nproc) \o local_particles[w]

\* the new local list of worker w when Stage D runs over buffer nb
StepResult(w, nb) ==
    simulateStep(buildQuadTree(nb), local_particles[w], nb, radius,
                 bmin[w], bmax[w]).newParticles

\* C15: selecting with the source's overlap test gives the same completed
\* exchange and the same per-particle results as selecting with the exact test:
\* once every worker has posted, each worker's wait returns, and Stage D over
\* its buffer yields what it yields over the exactly selected buffer
C15_OverInclusionIsSafe ==
    \A w \in Procs :
        (failure = "none" /\ pc[w] = "wait" /\ \A j \in Procs : pc[j] # "post")
        => /\ WaitReturns(w)
           /\ StepResult(w, AssembledNeighbors(w)) = StepResult(w, ExactAssembled(w))

\* C15, the completed exchanges alone: where a worker's wait does return, the
\* extra halos do not change its results
CompletedExchangesAgree ==
    \A w \in Procs :
        (failure = "none" /\ pc[w] = "wait" /\ WaitReturns(w))
        => StepResult(w, AssembledNeighbors(w)) = StepResult(w, ExactAssembled(w))

(* ---------------------- when redistribution runs ---------------------- *)
\* iteration n has got past the test i % REBUILD_GRANULARITY == 0
Started(n) ==
    \/ n < i
    \/ n = i /\ \E w \in Procs : pc[w] \in {"stageA", "post", "wait", "barrier"}

\* C16 as stated: redistribution runs before the first iteration and then at
\* exactly the iteration indices i with i mod 8 = 0
C16_RebuildEveryEight ==
    failure = "none"
    => \A n \in 0..MaxIter : (n \in rebuilds) <=> (Started(n) /\ n % 8 = 0)

\* C16 amended: redistribution runs before the first iteration and then at
\* exactly the iteration indices i with i mod 4 = 0
C16_RebuildEveryFour ==
    failure = "none"
    => \A n \in 0..MaxIter : (n \in rebuilds) <=> (Started(n) /\ n % 4 = 0)

\* iteration 4 is under way: 0 and 4 redistributed, 1, 2 and 3 did not
C16_Witness ==
    /\ failure = "none"
    /\ i = 4
    /\ \E w \in Procs : pc[w] = "barrier"
    /\ rebuilds = {0, 4}

(* --------------------- completion and message sizes ------------------- *)
\* C17: a worker is not past Stage D while a receive or a send it posted in
\* this iteration is incomplete: at the barrier it has no open receive request
\* and none of its messages is still in flight
C17_StageDAfterCompletion ==
    \A w \in Procs :
        (failure = "none" /\ pc[w] = "barrier")
        => /\ recv_reqs[w] = <<>>
           /\ \A d \in Procs : chan[w][d] = <<>>

\* C18: the bytes a worker posts to receive from a neighbor are
\* particle_list_sizes of that neighbor and equal the bytes the neighbor sends,
\* its local list length times the record size
C18_CountsMatch ==
    \A w \in Procs :
        (failure = "none" /\ pc[w] = "wait" /\ WaitReturns(w))
        => \A k \in 1..Len(recv_reqs[w]) :
             LET req == recv_reqs[w][k]
                 m   == Head(chan[req.src][w])
             IN  /\ req.bytes = particle_list_sizes[w][req.src]
                 /\ m.bytes = req.bytes
                 /\ m.bytes = Len(m.data) * SizeofParticle

\* a worker, in an iteration after the first, whose receive of a non-empty
\* halo is matched
C18_Witness ==
    \E w \in Procs :
        /\ failure = "none" /\ i > 0 /\ pc[w] = "wait" /\ WaitReturns(w)
        /\ Len(recv_reqs[w]) > 0
        /\ recv_reqs[w][1].bytes > 0
        /\ Head(chan[recv_reqs[w][1].src][w]).data # <<>>

(* --------------------------- the local bounds ------------------------- *)
\* C21 as stated: right after a redistribution each worker's (bmin, bmax)
\* encloses every one of its local particles and each of its four sides
\* touches at least one local particle
C21_EverySideTouchesAParticle ==
    (failure = "none" /\ \A w \in Procs : pc[w] = "stageA")
    => \A w \in Procs :
         LET ps == local_particles[w]
         IN  /\ \A k \in 1..Len(ps) :
                  /\ bmin[w].x <= ps[k].position.x /\ ps[k].position.x <= bmax[w].x
                  /\ bmin[w].y <= ps[k].position.y /\ ps[k].position.y <= bmax[w].y
             /\ \E k \in 1..Len(ps) : ps[k].position.x = bmin[w].x
             /\ \E k \in 1..Len(ps) : ps[k].position.x = bmax[w].x
             /\ \E k \in 1..Len(ps) : ps[k].position.y = bmin[w].y
             /\ \E k \in 1..Len(ps) : ps[k].position.y = bmax[w].y

\* C21 amended: right after a redistribution the (bmin, bmax) of a worker that
\* holds particles encloses every one of them and each of its four sides touches
\* at least one; a worker that holds none has the inverted box (1e30, -1e30)
C21_TightOrEmptyBox ==
    (failure = "none" /\ \A w \in Procs : pc[w] = "stageA")
    => \A w \in Procs :
         LET ps == local_particles[w]
         IN  IF Len(ps) = 0
             THEN bmin[w] = EmptyMin /\ bmax[w] = EmptyMax
             ELSE /\ \A k \in 1..Len(ps) :
                       /\ bmin[w].x <= ps[k].position.x /\ ps[k].position.x <= bmax[w].x
                       /\ bmin[w].y <= ps[k].position.y /\ ps[k].position.y <= bmax[w].y
                  /\ \E k \in 1..Len(ps) : ps[k].position.x = bmin[w].x
                  /\ \E k \in 1..Len(ps) : ps[k].position.x = bmax[w].x
                  /\ \E k \in 1..Len(ps) : ps[k].position.y = bmin[w].y
                  /\ \E k \in 1..Len(ps) : ps[k].position.y = bmax[w].y

\* the second redistribution of a four-worker run has just ended: one worker
\* holds both particles at different places, the box it had grown to during
\* the iterations before is replaced, and another worker holds none
C21_Witness ==
    /\ failure = "none" /\ nproc = 4 /\ i = REBUILD_GRANULARITY
    /\ \A w \in Procs : pc[w] = "stageA"
    /\ \E w \in Procs :
         /\ Len(local_particles[w]) = 2
         /\ bmin[w] # bmax[w]
         /\ bmin[w] # all_bounds[w][w].min \/ bmax[w] # all_bounds[w][w].max
    /\ \E w \in Procs : local_particles[w] = <<>>

\* C22: after Stage D of every iteration each worker's (bmin, bmax) is the
\* tight bounding box of its post-integration local_particles and keeps no
\* extent from earlier positions
C22_BoundsFromNewPositionsOnly ==
    \A w \in Procs :
        (failure = "none" /\ pc[w] = "barrier")
        => LET b == BoundsOver(local_particles[w], EmptyMin, EmptyMax)
           IN  bmin[w] = b.bmin /\ bmax[w] = b.bmax

(* ------------------- one grid for every worker ------------------------ *)
\* C23: at every redistribution all workers use identical global_min and
\* global_max and identical particles[] contents, and so compute the same owner
\* for every particle: where a redistribution is due the values each worker
\* scans with are equal, and where one has just ended the buffers and bounds are
\* equal and every local list is what the common owner function assigns
C23_SameGridOnEveryWorker ==
    /\ (failure = "none" /\ (\A w \in Procs : pc[w] = "loop") /\ LoopContinues
            /\ i % REBUILD_GRANULARITY = 0)
       => \A w1 \in Procs, w2 \in Procs :
            /\ RebuiltParticles(w1) = RebuiltParticles(w2)
            /\ GlobalBounds(w1) = GlobalBounds(w2)
            /\ \A nan \in NanOutcomes :
                 Owners(RebuiltParticles(w1), GlobalBounds(w1).max, GlobalBounds(w1).min,
                        dim, nan)
                 = Owners(RebuiltParticles(w2), GlobalBounds(w2).max, GlobalBounds(w2).min,
                          dim, nan)
    /\ (failure = "none" /\ \A w \in Procs : pc[w] = "stageA")
       => /\ \A w1 \in Procs, w2 \in Procs :
               particles[w1] = particles[w2] /\ UsedGlobal(w1) = UsedGlobal(w2)
          /\ \E nan \in NanOutcomes : \A w \in Procs : \A k \in 1..Len(particles[w]) :
               (OwnerOf(particles[w][k].position, UsedGlobal(COORDINATOR).max,
                        UsedGlobal(COORDINATOR).min, dim, nan).retval = w)
               <=> (particles[w][k] \in SeqRange(local_particles[w]))

\* the second redistribution of a four-worker run has just ended: the buffer
\* was gathered from two workers, the particles have moved, and the grid lies
\* over the gathered bounds
C23_Witness ==
    /\ failure = "none" /\ nproc = 4 /\ i = REBUILD_GRANULARITY
    /\ \A w \in Procs : pc[w] = "stageA"
    /\ \E w1 \in Procs, w2 \in Procs :
         w1 # w2 /\ new_particles[w1] # <<>> /\ new_particles[w2] # <<>>
    /\ \A k \in 1..Len(input) : particles[COORDINATOR][k] # input[k]
    /\ UsedGlobal(COORDINATOR).max.x > UsedGlobal(COORDINATOR).min.x
    /\ \A w \in Procs : particles[w] = particles[COORDINATOR]

(* ---------------------- who advances a particle ----------------------- *)
\* C24: in an iteration each particle is advanced by one time step, by its
\* owning worker only: a worker that has finished Stage D holds its own
\* particles of the start of the iteration, each advanced once, and nothing
\* else; what it sent is its own list; and when every worker has finished, each
\* particle of the input is held by exactly one of them
C24_AdvancedOnceByOwner ==
    /\ \A w \in Procs :
         (failure = "none" /\ pc[w] = "barrier")
         => /\ Len(local_particles[w]) = Len(new_particles[w])
            /\ \A k \in 1..Len(local_particles[w]) :
                 /\ local_particles[w][k].id = new_particles[w][k].id
                 /\ \E fx \in (-NumParticles)..NumParticles,
                       fy \in (-NumParticles)..NumParticles :
                      local_particles[w][k] = updateParticle(new_particles[w][k], Vec2(fx, fy))
    /\ \A w \in Procs, d \in Procs :
         (failure = "none" /\ pc[w] \in {"wait", "barrier"})
         => \A m \in 1..Len(chan[w][d]) : chan[w][d][m].data = IterStartLocal(w)
    /\ (failure = "none" /\ \A w \in Procs : pc[w] = "barrier")
       => \A k \in 1..Len(input) : Cardinality(HoldersOf(input[k].id)) = 1

\* every worker of a four-worker run has finished Stage D, in an iteration after
\* the first; one of them received a particle of another worker, moved its own
\* and does not hold the received one
C24_Witness ==
    /\ failure = "none" /\ nproc = 4 /\ i > 0
    /\ \A w \in Procs : pc[w] = "barrier"
    /\ \E w \in Procs :
         /\ local_particles[w] # <<>>
         /\ local_particles[w][1].position # new_particles[w][1].position
         /\ \E s \in 1..Len(dest[w]) :
              /\ dest[w][s] # Garbage
              /\ \A k \in 1..Len(local_particles[w]) :
                   local_particles[w][k].id # dest[w][s].id

(* --------------------------- a single worker -------------------------- *)
\* C25: with W = 1 the run completes: no assert ends it, after the initial
\* redistribution the worker owns every input particle, it selects no neighbor
\* and posts no message, and after one iteration the output holds every input
\* particle in place with its id, advanced once (stated for inputs whose
\* bounding box has a positive extent on both axes, where the owner
\* computation has one outcome)
C25_SingleWorkerCompletes ==
    LET b == BoundsOver(input, EmptyMin, EmptyMax)
    IN  (nproc = 1 /\ b.bmax.x > b.bmin.x /\ b.bmax.y > b.bmin.y)
        => /\ failure = "none"
           /\ ~Stuck
           /\ Redistributed
              => /\ Len(local_particles[0]) = Len(input)
                 /\ \A k \in 1..Len(input) : Cardinality(HoldersOf(input[k].id)) = 1
                 /\ neighbor_procs[0] = <<>>
                 /\ recv_reqs[0] = <<>>
                 /\ chan[0][0] = <<>>
           /\ (pc[0] = "done" /\ i = 1)
              => /\ Len(output) = Len(input)
                 /\ \A k \in 1..Len(input) :
                      /\ output[k].id = input[k].id
                      /\ \E fx \in (-NumParticles)..NumParticles,
                            fy \in (-NumParticles)..NumParticles :
                           output[k] = updateParticle(input[k], Vec2(fx, fy))

(* ---------------------- the number of workers ------------------------- *)
\* C26: a run whose worker count is not a perfect square aborts at startup,
\* before any redistribution, halo exchange or iteration: it never redistributes,
\* never leaves the top of the loop alive and writes no output
C26_NonSquareAbortsAtStartup ==
    (nproc # dim * dim)
    => /\ rebuilds = {}
       /\ i = 0
       /\ \A w \in Procs : pc[w] \in {"loop", "aborted"}
       /\ output = <<>>

(* ------------------------ the shape of the tree ----------------------- *)
\* C27: in every tree a terminating buildQuadTree produced, every leaf holds at
\* most QuadTreeLeafSize particles, and every internal node holds no particles
\* and has exactly four children, each a node
C27_NodesWellFormed ==
    qt_pc \in {"built", "queried"}
    => LET RECURSIVE wellFormed(_)
           wellFormed(node) ==
               IF node.isLeaf
               THEN Len(node.particles) <= QuadTreeLeafSize
               ELSE /\ node.particles = <<>>
                    /\ DOMAIN node.children = 1..4
                    /\ \A c \in 1..4 : wellFormed(node.children[c])
       IN  wellFormed(qt_tree.root)

\* a built tree over more particles than a leaf takes: the root is internal,
\* one child is a full leaf, another an empty one
C27_Witness ==
    /\ qt_pc = "built"
    /\ Len(qt_input) > QuadTreeLeafSize
    /\ ~qt_tree.root.isLeaf
    /\ \E c \in 1..4 : /\ qt_tree.root.children[c].isLeaf
                       /\ Len(qt_tree.root.children[c].particles) = QuadTreeLeafSize
    /\ \E c \in 1..4 : /\ qt_tree.root.children[c].isLeaf
                       /\ qt_tree.root.children[c].particles = <<>>

(* --------------------- symmetry of the selection ---------------------- *)
\* C28: in an iteration, for every pair of distinct workers a and b that have
\* both selected, a selects b if and only if b selects a
C28_SelectionIsSymmetric ==
    \A a \in Procs, b \in Procs :
        (failure = "none" /\ a # b /\ pc[a] \in {"wait", "barrier"}
            /\ pc[b] \in {"wait", "barrier"})
        => ((b \in SeqRange(neighbor_procs[a])) <=> (a \in SeqRange(neighbor_procs[b])))

(* ------------------------- an unowned particle ------------------------ *)
\* C29: a redistribution in which some particle's owner index is out of range,
\* so that no worker claims it, ends the run through the size-sum assert; a
\* redistribution that does not end the run leaves every particle in exactly
\* one local list, so no worker goes on with a particle missing
C29_UnownedParticleAborts ==
    [][ Redistribute
        => /\ (\A nan \in NanOutcomes : \E k \in 1..Len(RebuiltParticles(COORDINATOR)) :
                 Owners(RebuiltParticles(COORDINATOR), GlobalBounds(COORDINATOR).max,
                        GlobalBounds(COORDINATOR).min, dim, nan)[k].retval \notin Procs)
              => (failure' = "size_sum" /\ \A w \in Procs : pc'[w] = "aborted")
           /\ (failure' = "none")
              => \A k \in 1..Len(input) : Cardinality(HoldersOf(input[k].id))' = 1
      ]_vars

\* a four-worker run ended by the size-sum assert in its second redistribution:
\* a particle that moved onto the upper edge of the gathered bounds has an owner
\* index that is no worker's
C29_Witness ==
    /\ failure = "size_sum" /\ nproc = 4 /\ i = REBUILD_GRANULARITY
    /\ \A w \in Procs : pc[w] = "aborted"
    /\ \A nan \in NanOutcomes : \E k \in 1..Len(RebuiltParticles(COORDINATOR)) :
         /\ Owners(RebuiltParticles(COORDINATOR), GlobalBounds(COORDINATOR).max,
                   GlobalBounds(COORDINATOR).min, dim, nan)[k].retval \notin Procs
         /\ RebuiltParticles(COORDINATOR)[k] # input[k]

(* ----------------------- the receive regions -------------------------- *)
\* C30: in an iteration the receive regions of a worker start at the prefix
\* sums of the byte sizes of its selected neighbors, each as long as its
\* neighbor's size, so that they follow one another without gap or overlap from
\* offset 0, and all lie inside the buffer of |particles| * sizeof(Particle)
\* bytes
C30_ReceiveRegions ==
    \A w \in Procs :
        (failure = "none" /\ pc[w] = "wait")
        => LET rq == recv_reqs[w]
               nb == neighbor_procs[w]
           IN  /\ Len(rq) = Len(nb)
               /\ Len(dest[w]) = Len(particles[w])
               /\ \A k \in 1..Len(rq) :
                    /\ rq[k].src = nb[k]
                    /\ rq[k].bytes = particle_list_sizes[w][nb[k]]
                    /\ rq[k].offset
                         = SeqSum([m \in 1..(k - 1) |-> particle_list_sizes[w][nb[m]]])
                    /\ rq[k].offset + rq[k].bytes <= Len(particles[w]) * SizeofParticle
               /\ \A k \in 1..(Len(rq) - 1) : rq[k + 1].offset = rq[k].offset + rq[k].bytes
               /\ \A a \in 1..Len(rq), b \in 1..Len(rq) :
                    a < b => rq[a].offset + rq[a].bytes <= rq[b].offset

\* a worker, in an iteration after the first, that receives from two neighbors
\* which both hold particles: the second region starts where the first ends
C30_Witness ==
    \E w \in Procs :
        /\ failure = "none" /\ i > 0 /\ pc[w] = "wait"
        /\ Len(recv_reqs[w]) = 2
        /\ recv_reqs[w][1].bytes > 0
        /\ recv_reqs[w][2].bytes > 0
        /\ recv_reqs[w][2].offset = recv_reqs[w][1].bytes
        /\ WaitReturns(w)

(* ------------------------ the quadrant split -------------------------- *)
\* C31: the four quadrant tests place every particle a node is given in exactly
\* one child, so the particles stored in the leaves of a built tree are the
\* input particles, each once: none is lost and none is duplicated
C31_LeavesHoldTheInput ==
    qt_pc \in {"built", "queried"}
    => LET RECURSIVE leaves(_)
           leaves(node) ==
               IF node.isLeaf THEN node.particles
               ELSE leaves(node.children[1]) \o leaves(node.children[2])
                    \o leaves(node.children[3]) \o leaves(node.children[4])
           stored == leaves(qt_tree.root)
       IN  /\ Len(stored) = Len(qt_input)
           /\ \A k \in 1..Len(qt_input) :
                Cardinality({ m \in 1..Len(stored) : stored[m] = qt_input[k] })
                = Cardinality({ m \in 1..Len(qt_input) : qt_input[m] = qt_input[k] })

\* a built tree whose root was split, with particles in two children and one
\* particle on both split lines of the root
C31_Witness ==
    /\ qt_pc = "built"
    /\ ~qt_tree.root.isLeaf
    /\ \E a \in 1..4, b \in 1..4 :
         /\ a # b
         /\ qt_tree.root.children[a].isLeaf /\ qt_tree.root.children[a].particles # <<>>
         /\ qt_tree.root.children[b].isLeaf /\ qt_tree.root.children[b].particles # <<>>
    /\ \E k \in 1..Len(qt_input) :
         /\ Fine(qt_input[k].position.x) = Half(qt_tree.bmin.x + qt_tree.bmax.x)
         /\ Fine(qt_input[k].position.y) = Half(qt_tree.bmin.y + qt_tree.bmax.y)

(* ----------------------- the advertised bounds ------------------------ *)
\* C32: at Stage A of every iteration, with or without a redistribution before
\* it, the (bmin, bmax) a worker advertises is what every worker holds for it
\* and encloses the current position of every particle of its local_particles
C32_AdvertisedBoundsEnclose ==
    \A w \in Procs, j \in Procs :
        (failure = "none" /\ pc[j] \in {"post", "wait"})
        => /\ all_bounds[w][j] = bound_t(bmin[j], bmax[j])
           /\ \A k \in 1..Len(local_particles[j]) :
                /\ all_bounds[w][j].min.x <= local_particles[j][k].position.x
                /\ local_particles[j][k].position.x <= all_bounds[w][j].max.x
                /\ all_bounds[w][j].min.y <= local_particles[j][k].position.y
                /\ local_particles[j][k].position.y <= all_bounds[w][j].max.y

\* Stage A of an iteration that did not redistribute, on four workers: a worker
\* advertises a box that its particle has moved inside of, no longer the tight
\* one
C32_Witness ==
    /\ failure = "none" /\ nproc = 4 /\ i % REBUILD_GRANULARITY # 0
    /\ \A w \in Procs : pc[w] = "post"
    /\ \E j \in Procs :
         /\ local_particles[j] # <<>>
         /\ local_particles[j] # new_particles[j]
         /\ bmin[j] # BoundsOver(local_particles[j], EmptyMin, EmptyMax).bmin
         /\ all_bounds[COORDINATOR][j] = bound_t(bmin[j], bmax[j])

(* ------------------ ownership between redistributions ----------------- *)
\* C33: between two redistributions ownership is frozen: every step of the
\* program other than a redistribution leaves each worker's local_particles
\* with the same length, the same ids and masses in the same order, and leaves
\* particle_list_sizes and particle_list_displ as they were
C33_OwnershipFrozen ==
    [][ ~Redistribute
        => /\ particle_list_sizes' = particle_list_sizes
           /\ particle_list_displ' = particle_list_displ
           /\ num_local_particles' = num_local_particles
           /\ \A w \in Procs :
                /\ Len(local_particles'[w]) = Len(local_particles[w])
                /\ \A k \in 1..Len(local_particles[w]) :
                     /\ local_particles'[w][k].id = local_particles[w][k].id
                     /\ local_particles'[w][k].mass = local_particles[w][k].mass
      ]_vars

\* a worker of a four-worker run has finished Stage D of an iteration before the
\* second redistribution: it holds both particles, both have moved, and one now
\* lies in the grid cell of another worker
C33_Witness ==
    \E w \in Procs :
        /\ failure = "none" /\ nproc = 4 /\ i < REBUILD_GRANULARITY /\ pc[w] = "barrier"
        /\ Len(local_particles[w]) = 2
        /\ \A k \in 1..2 : /\ local_particles[w][k].id = new_particles[w][k].id
                           /\ local_particles[w][k].position # new_particles[w][k].position
        /\ LET g == BoundsOver(input, EmptyMin, EmptyMax)
           IN  \E k \in 1..2 :
                 OwnerOf(local_particles[w][k].position, g.bmax, g.bmin, dim, 0).retval
                     \in Procs \ {w}

(* ------------------- the global bounds and the assert ----------------- *)
\* C34: at every redistribution the global bounds enclose the position of every
\* particle of particles[], so each offset coordinate handed to
\* get_pid_of_coord is between 0 and the global extent and the assert at its top
\* never fails
C34_GlobalBoundsEnclose ==
    /\ failure # "coord_assert"
    /\ (failure = "none" /\ (\A w \in Procs : pc[w] = "loop") /\ LoopContinues
            /\ i % REBUILD_GRANULARITY = 0)
       => \A w \in Procs :
            /\ CoordAssertHolds(w)
            /\ \A k \in 1..Len(RebuiltParticles(w)) :
                 LET p == RebuiltParticles(w)[k].position
                     g == GlobalBounds(w)
                 IN  /\ 0 <= p.x - g.min.x /\ p.x - g.min.x <= g.max.x - g.min.x
                     /\ 0 <= p.y - g.min.y /\ p.y - g.min.y <= g.max.y - g.min.y

\* the second redistribution of a four-worker run has ended without an assert,
\* over gathered bounds that reach beyond the box of the loaded file, with a
\* particle outside that box
C34_Witness ==
    /\ failure = "none" /\ nproc = 4 /\ i = REBUILD_GRANULARITY
    /\ \A w \in Procs : pc[w] = "stageA"
    /\ LET g == BoundsOver(input, EmptyMin, EmptyMax)
       IN  /\ UsedGlobal(COORDINATOR).max.x > g.bmax.x
           /\ \E k \in 1..Len(particles[COORDINATOR]) :
                particles[COORDINATOR][k].position.x > g.bmax.x

(* ------------------------ halo data and time -------------------------- *)
\* C35: halo data is consistent in time: the particles that complete a receive
\* of worker w in iteration i are the sender's local list as it was at the
\* start of iteration i, and no message posted in an iteration is still in
\* flight when the workers have passed the barrier that ends it, so no send
\* buffer is rewritten by a later Stage D before its receive completed
C35_HaloConsistentInTime ==
    /\ \A w \in Procs :
         (failure = "none" /\ pc[w] = "wait" /\ WaitReturns(w))
         => \A k \in 1..Len(recv_reqs[w]) :
              LET s == recv_reqs[w][k].src
              IN  Head(chan[s][w]).data
                    = IF pc[s] = "barrier" THEN new_particles[s] ELSE local_particles[s]
    /\ (failure = "none" /\ \A w \in Procs : pc[w] = "loop")
       => \A s \in Procs : \A d \in Procs : chan[s][d] = <<>>

\* a receive about to complete, in an iteration after the first, whose sender
\* is already past Stage D and has moved its particles: the message still holds
\* the list the sender started the iteration with
C35_Witness ==
    \E w \in Procs :
        /\ failure = "none" /\ i > 0 /\ pc[w] = "wait" /\ WaitReturns(w)
        /\ \E k \in 1..Len(recv_reqs[w]) :
             LET s == recv_reqs[w][k].src
             IN  /\ pc[s] = "barrier"
                 /\ Head(chan[s][w]).data # <<>>
                 /\ Head(chan[s][w]).data # local_particles[s]

(* ------------------------- the run with -n 0 -------------------------- *)
\* C36: a run with iteration count 0 completes and writes the input population
\* unchanged in input order: it does not die in the final gather, and what it
\* saves is the loaded file
C36_ZeroIterationsKeepInput ==
    /\ failure # "gather_fault"
    /\ (i = 0 /\ \A w \in Procs : pc[w] = "done") => output = input

(* ------------------------ repeatable answers -------------------------- *)
\* C37: a second build from the same input sequence answers the query exactly as
\* the tree in use did, whatever the output buffer held, and the order of the
\* answer is fixed by the tree: particles of an earlier child come first
\* (preorder over the children 0..3), particles of one leaf in the order in
\* which they were inserted, which is the input order
C37_SameInputSameAnswers ==
    qt_pc = "queried"
    => LET RECURSIVE holds(_, _)
           holds(node, id) ==
               IF node.isLeaf
               THEN \E k \in 1..Len(node.particles) : node.particles[k].id = id
               ELSE \E c \in 1..4 : holds(node.children[c], id)
           RECURSIVE path(_, _)
           path(node, id) ==
               IF node.isLeaf THEN <<>>
               ELSE LET c == CHOOSE d \in 1..4 : holds(node.children[d], id)
                    IN  <<c>> \o path(node.children[c], id)
           inputIndex(id) == CHOOSE k \in 1..Len(qt_input) : qt_input[k].id = id
           before(ida, idb) ==
               LET pa == path(qt_tree.root, ida)
                   pb == path(qt_tree.root, idb)
               IN  IF pa = pb THEN inputIndex(ida) < inputIndex(idb)
                   ELSE \E m \in 1..Min2(Len(pa), Len(pb)) :
                          /\ pa[m] < pb[m]
                          /\ \A n \in 1..(m - 1) : pa[n] = pb[n]
       IN  /\ qt_result = getParticles(<<>>, buildQuadTree(qt_input),
                                       qt_query.position, qt_query.radius)
           /\ \A a \in 1..Len(qt_result) : \A b \in 1..Len(qt_result) :
                a < b => before(qt_result[a].id, qt_result[b].id)

\* a query into a used buffer on a split tree that returns two particles of one
\* leaf and, after them, a particle that was earlier in the input
C37_Witness ==
    /\ qt_pc = "queried"
    /\ ~qt_tree.root.isLeaf
    /\ qt_query.buffer # <<>>
    /\ Len(qt_result) >= 3
    /\ \E c \in 1..4 :
         /\ qt_tree.root.children[c].isLeaf
         /\ qt_tree.root.children[c].particles = SubSeq(qt_result, 1, 2)
    /\ qt_result[3].id < qt_result[1].id

(* -------------------- the blocks of the first simulator ---------------- *)
\* C38: in the first simulator, for every particle count n >= nproc, the ranges
\* [start, end) of the workers are contiguous and disjoint and cover exactly
\* [0, n): the first starts at 0, each starts where the one before ended, the
\* last ends at n, the gather counts sum to n * sizeof(Particle), and in an
\* iteration every index is simulated by exactly one worker
C38_RangesCoverAllIndices ==
    (v1_pc \in {"loop", "done"} /\ v1_num_particles >= v1_nproc)
    => /\ v1_start[0] = 0
       /\ \A w \in RangeProcs : v1_start[w] <= v1_end[w]
       /\ \A w \in RangeProcs : w > 0 => v1_start[w] = v1_end[w - 1]
       /\ v1_end[v1_nproc - 1] = v1_num_particles
       /\ SeqSum([k \in 1..v1_nproc |-> v1_recv_count[k - 1]])
              = v1_num_particles * SizeofParticle
       /\ v1_pc = "done" => \A j \in 0..(v1_num_particles - 1) : v1_hits[j] = 1

(* ====================================================================== *)
(* Control flow of main alone: each worker runs the program text at its    *)
(* own pace and enters the collectives one by one.  The data are left out: *)
(* a test whose outcome depends on them (the size-sum assert, the wait     *)
(* loop ever returning) takes either outcome.                              *)
(* ====================================================================== *)
FlowProcs == 0..(fl_nproc - 1)

\* the statements of main a worker can be at
FlowLabels == {"barrier0", "loop", "rebuild_bounds", "rebuild_gather", "rebuild_sizes",
               "rebuild_check", "bounds", "halo", "stageD", "barrier", "final",
               "done", "blocked", "aborted"}

\* the collective call made by a statement
KindAt(at) ==
    CASE at = "barrier0"       -> "barrier"
      [] at = "rebuild_bounds" -> "bounds_allgather"
      [] at = "rebuild_gather" -> "population_allgatherv"
      [] at = "rebuild_sizes"  -> "size_allgather"
      [] at = "bounds"         -> "bounds_allgather"
      [] at = "barrier"        -> "barrier"
      [] at = "final"          -> "final_allgatherv"
      [] OTHER                 -> "none"

IsCollective(at) == KindAt(at) # "none"

\* if (i % REBUILD_GRANULARITY == 0), on worker w's own i
RebuildDue(w) == fl_i[w] % REBUILD_GRANULARITY = 0

\* the guard a worker would use if only the non-coordinators gathered
GatherBeforeRebuild_not_coordinator(w) == w # COORDINATOR

\* if (i != 0) in front of the population MPI_Allgatherv, on worker w's own i
GatherBeforeRebuild(w) == fl_i[w] # 0

\* the statement after a collective has returned on worker w
AfterCollective(w, at) ==
    CASE at = "barrier0"       -> "loop"
      [] at = "rebuild_bounds" -> IF GatherBeforeRebuild(w) THEN "rebuild_gather"
                                                             ELSE "rebuild_sizes"
      [] at = "rebuild_gather" -> "rebuild_sizes"
      [] at = "rebuild_sizes"  -> "rebuild_check"
      [] at = "bounds"         -> "halo"
      [] at = "barrier"        -> "loop"
      [] at = "final"          -> "done"

\* for (int i = 0; i < options.numIterations; i++) { if (i % REBUILD_GRANULARITY == 0)
AfterLoopTest(w) ==
    IF fl_i[w] < fl_n
    THEN IF RebuildDue(w) THEN "rebuild_bounds" ELSE "bounds"
    ELSE "final"

InitFlow ==
    /\ fl_nproc \in WorkerCounts
    /\ fl_n \in 1..MaxIter
    /\ fl_i = [w \in FlowProcs |-> 0]
    /\ fl_pc = [w \in FlowProcs |-> [at |-> "barrier0", inside |-> FALSE]]
    /\ fl_log = [w \in FlowProcs |-> <<>>]
    /\ SimOff /\ OwnerOff /\ TreeOff /\ RangesOff

\* worker w calls the collective of its statement
EnterCollective(w) ==
    /\ IsCollective(fl_pc[w].at)
    /\ ~fl_pc[w].inside
    /\ fl_log' = [fl_log EXCEPT ![w] = Append(@, KindAt(fl_pc[w].at))]
    /\ fl_pc' = [fl_pc EXCEPT ![w].inside = TRUE]
    /\ UNCHANGED <<fl_nproc, fl_n, fl_i, simvars, ownervars, treevars, rangevars>>

\* the call returns once every worker has made as many collective calls
ReturnFromCollective(w) ==
    /\ fl_pc[w].inside
    /\ \A v \in FlowProcs : Len(fl_log[v]) >= Len(fl_log[w])
    /\ fl_pc' = [fl_pc EXCEPT ![w] = [at |-> AfterCollective(w, fl_pc[w].at),
                                      inside |-> FALSE]]
    /\ fl_i' = [fl_i EXCEPT ![w] = IF fl_pc[w].at = "barrier" THEN @ + 1 ELSE @]
    /\ UNCHANGED <<fl_nproc, fl_n, fl_log, simvars, ownervars, treevars, rangevars>>

\* the loop test and its first branch
LoopTest(w) ==
    /\ fl_pc[w].at = "loop"
    /\ fl_pc' = [fl_pc EXCEPT ![w].at = AfterLoopTest(w)]
    /\ UNCHANGED <<fl_nproc, fl_n, fl_i, fl_log, simvars, ownervars, treevars, rangevars>>

\* if (acc != particles.size() * sizeof(Particle)) assert(false): passes
SizeCheckPasses(w) ==
    /\ fl_pc[w].at = "rebuild_check"
    /\ fl_pc' = [fl_pc EXCEPT ![w].at = "bounds"]
    /\ UNCHANGED <<fl_nproc, fl_n, fl_i, fl_log, simvars, ownervars, treevars, rangevars>>

\* the assert fails: the job is killed
SizeCheckFails(w) ==
    /\ fl_pc[w].at = "rebuild_check"
    /\ fl_pc' = [v \in FlowProcs |-> [at |-> "aborted", inside |-> FALSE]]
    /\ UNCHANGED <<fl_nproc, fl_n, fl_i, fl_log, simvars, ownervars, treevars, rangevars>>

\* sends and receives are posted and the wait loop returns
HaloReturns(w) ==
    /\ fl_pc[w].at = "halo"
    /\ fl_pc' = [fl_pc EXCEPT ![w].at = "stageD"]
    /\ UNCHANGED <<fl_nproc, fl_n, fl_i, fl_log, simvars, ownervars, treevars, rangevars>>

\* a receive is never matched: MPI_Wait does not return
HaloBlocks(w) ==
    /\ fl_pc[w].at = "halo"
    /\ fl_pc' = [fl_pc EXCEPT ![w].at = "blocked"]
    /\ UNCHANGED <<fl_nproc, fl_n, fl_i, fl_log, simvars, ownervars, treevars, rangevars>>

\* the force and update pass, local to the worker
StageD(w) ==
    /\ fl_pc[w].at = "stageD"
    /\ fl_pc' = [fl_pc EXCEPT ![w].at = "barrier"]
    /\ UNCHANGED <<fl_nproc, fl_n, fl_i, fl_log, simvars, ownervars, treevars, rangevars>>

NextFlow ==
    \/ \E w \in FlowProcs : EnterCollective(w)
    \/ \E w \in FlowProcs : ReturnFromCollective(w)
    \/ \E w \in FlowProcs : LoopTest(w)
    \/ \E w \in FlowProcs : SizeCheckPasses(w)
    \/ \E w \in FlowProcs : SizeCheckFails(w)
    \/ \E w \in FlowProcs : HaloReturns(w)
    \/ \E w \in FlowProcs : HaloBlocks(w)
    \/ \E w \in FlowProcs : StageD(w)

SpecFlow == InitFlow /\ [][NextFlow]_vars

(* ------------------------- collective ordering ------------------------ *)
ShorterLog(a, b) == IF Len(fl_log[a]) <= Len(fl_log[b]) THEN Len(fl_log[a]) ELSE Len(fl_log[b])

\* C19: the k-th collective entered by one worker is of the same kind as the
\* k-th collective entered by every other worker, for every k both have reached
C19_SameCollectiveOrder ==
    \A a \in FlowProcs : \A b \in FlowProcs :
        \A k \in 1..ShorterLog(a, b) : fl_log[a][k] = fl_log[b][k]

\* four workers have run five iterations to the end, so that every kind of
\* collective, the population gather of the second redistribution included,
\* has been entered by each of them
C19_Witness ==
    /\ fl_nproc = 4
    /\ fl_n > REBUILD_GRANULARITY
    /\ \A w \in FlowProcs : fl_pc[w].at = "done"
    /\ \A w \in FlowProcs :
         \A kind \in {"barrier", "bounds_allgather", "population_allgatherv",
                      "size_allgather", "final_allgatherv"} :
             \E k \in 1..Len(fl_log[w]) : fl_log[w][k] = kind

====
